---- MODULE Spec2Model ----
(***************************************************************************)
(* A model of simple-redis: the RESP codec (src/resp), the command         *)
(* dispatcher and executors (src/cmd), the store (src/backend) and the     *)
(* per-connection handler (src/network.rs).                                *)
(*                                                                         *)
(* A byte is its numeric value (42 is '*', 13 10 is CRLF); a byte buffer   *)
(* and a Rust String (always valid UTF-8) are sequences of bytes.          *)
(* A frame is a record [t |-> variant, v |-> payload].                     *)
(***************************************************************************)
EXTENDS Integers, Sequences, FiniteSets, TLC

----------------------------------------------------------------------------
(* Bytes, text and numbers                                                 *)

CRLF == <<13, 10>>

CRLF_LEN == 2

Last(s) == s[Len(s)]

DropN(s, n) == SubSeq(s, n + 1, Len(s))

TakeN(s, n) == SubSeq(s, 1, n)

(* buf.starts_with(p) *)
StartsWith(s, p) == Len(s) >= Len(p) /\ SubSeq(s, 1, Len(p)) = p

IsDigit(c) == c >= 48 /\ c <= 57

(* char::is_whitespace restricted to one-byte characters *)
IsWhitespace(c) == c \in {9, 10, 11, 12, 13, 32}

RECURSIVE TrimStart(_)
TrimStart(s) ==
    IF s # <<>> /\ IsWhitespace(s[1]) THEN TrimStart(Tail(s)) ELSE s

RECURSIVE TrimEnd(_)
TrimEnd(s) ==
    IF s # <<>> /\ IsWhitespace(Last(s)) THEN TrimEnd(TakeN(s, Len(s) - 1)) ELSE s

(* str::trim *)
Trim(s) == TrimEnd(TrimStart(s))

(* u8::to_ascii_lowercase, applied to every byte *)
ToAsciiLowercase(s) ==
    [i \in 1..Len(s) |-> IF s[i] >= 65 /\ s[i] <= 90 THEN s[i] + 32 ELSE s[i]]

(* String::from_utf8 succeeds.  One-byte characters are the bytes below    *)
(* 128; the only multi-byte character of the model is U+FFFD (EF BF BD),   *)
(* the one from_utf8_lossy produces.                                       *)
RECURSIVE Utf8Valid(_)
Utf8Valid(s) ==
    IF s = <<>> THEN TRUE
    ELSE IF s[1] < 128 THEN Utf8Valid(Tail(s))
    ELSE IF StartsWith(s, <<239, 191, 189>>) THEN Utf8Valid(DropN(s, 3))
    ELSE FALSE

(* String::from_utf8_lossy: every byte that starts no valid character is   *)
(* replaced by U+FFFD.                                                      *)
RECURSIVE FromUtf8Lossy(_)
FromUtf8Lossy(s) ==
    IF s = <<>> THEN <<>>
    ELSE IF s[1] < 128 THEN <<s[1]>> \o FromUtf8Lossy(Tail(s))
    ELSE IF StartsWith(s, <<239, 191, 189>>)
         THEN <<239, 191, 189>> \o FromUtf8Lossy(DropN(s, 3))
    ELSE <<239, 191, 189>> \o FromUtf8Lossy(Tail(s))

(* Ord for String / Vec<u8>: lexicographic on bytes *)
RECURSIVE LexLess(_, _)
LexLess(a, b) ==
    IF b = <<>> THEN FALSE
    ELSE IF a = <<>> THEN TRUE
    ELSE IF a[1] # b[1] THEN a[1] < b[1]
    ELSE LexLess(Tail(a), Tail(b))

(* Display for unsigned integers: decimal digits *)
RECURSIVE FmtNat(_)
FmtNat(n) ==
    IF n < 10 THEN <<48 + n>> ELSE FmtNat(n \div 10) \o <<48 + (n % 10)>>

(* Display for i64 *)
FmtInt(n) == IF n < 0 THEN <<45>> \o FmtNat(-n) ELSE FmtNat(n)

RECURSIVE DigitsVal(_)
DigitsVal(s) ==
    IF s = <<>> THEN 0
    ELSE DigitsVal(TakeN(s, Len(s) - 1)) * 10 + (Last(s) - 48)

AllDigits(s) == s # <<>> /\ \A i \in 1..Len(s) : IsDigit(s[i])

(* str::parse::<usize>: an optional '+', then one or more digits *)
ParseUsize(s) ==
    LET body == IF s # <<>> /\ s[1] = 43 THEN Tail(s) ELSE s
    IN  IF AllDigits(body) THEN [ok |-> TRUE, val |-> DigitsVal(body)]
        ELSE [ok |-> FALSE, val |-> 0]

(* str::parse::<i64>: an optional '+' or '-', then one or more digits *)
ParseI64(s) ==
    LET signed == s # <<>> /\ s[1] \in {43, 45}
        body == IF signed THEN Tail(s) ELSE s
    IN  IF ~AllDigits(body) THEN [ok |-> FALSE, val |-> 0]
        ELSE IF signed /\ s[1] = 45 THEN [ok |-> TRUE, val |-> 0 - DigitsVal(body)]
        ELSE [ok |-> TRUE, val |-> DigitsVal(body)]

----------------------------------------------------------------------------
(* f64.  A finite double is [neg, m, e]: the decimal (-)m[1].m[2..] * 10^e *)
(* with m[1] # 0 and no trailing zero in m, or m = <<0>>, e = 0 for zero.  *)

(* first index of s holding a byte of set cs, or 0 *)
FirstIdx(s, cs) ==
    IF \E i \in 1..Len(s) : s[i] \in cs
    THEN CHOOSE i \in 1..Len(s) : s[i] \in cs /\ \A j \in 1..(i - 1) : s[j] \notin cs
    ELSE 0

RECURSIVE StripLeadingZeros(_)
StripLeadingZeros(ds) ==
    IF ds # <<>> /\ ds[1] = 0 THEN StripLeadingZeros(Tail(ds)) ELSE ds

RECURSIVE StripTrailingZeros(_)
StripTrailingZeros(ds) ==
    IF ds # <<>> /\ Last(ds) = 0 THEN StripTrailingZeros(TakeN(ds, Len(ds) - 1)) ELSE ds

NoDouble == [neg |-> FALSE, m |-> <<0>>, e |-> 0]

(* LowerExp with the sign flag: format!("{:+e}", d) *)
FmtDouble(d) ==
    <<IF d.neg THEN 45 ELSE 43>>
    \o <<48 + d.m[1]>>
    \o (IF Len(d.m) > 1
        THEN <<46>> \o [i \in 1..(Len(d.m) - 1) |-> 48 + d.m[i + 1]]
        ELSE <<>>)
    \o <<101>> \o FmtInt(d.e)

(* str::parse::<f64> on decimal text:                                       *)
(*   [+-] digits [. digits] [(e|E) [+-] digits], at least one mantissa digit *)
ParseF64(s) ==
    LET signed == s # <<>> /\ s[1] \in {43, 45}
        neg == signed /\ s[1] = 45
        rest == IF signed THEN Tail(s) ELSE s
        epos == FirstIdx(rest, {69, 101})
        mant == IF epos = 0 THEN rest ELSE TakeN(rest, epos - 1)
        expo == IF epos = 0 THEN <<48>> ELSE DropN(rest, epos)
        dpos == FirstIdx(mant, {46})
        ipart == IF dpos = 0 THEN mant ELSE TakeN(mant, dpos - 1)
        fpart == IF dpos = 0 THEN <<>> ELSE DropN(mant, dpos)
        all == ipart \o fpart
        ex == ParseI64(expo)
        wellformed == /\ all # <<>>
                      /\ \A i \in 1..Len(all) : IsDigit(all[i])
                      /\ ex.ok
        ds == [i \in 1..Len(all) |-> all[i] - 48]
        nz == StripLeadingZeros(ds)
        lead == Len(ds) - Len(nz)
    IN  IF ~wellformed THEN [ok |-> FALSE, val |-> NoDouble]
        ELSE IF nz = <<>> THEN [ok |-> TRUE, val |-> [neg |-> neg, m |-> <<0>>, e |-> 0]]
        ELSE [ok |-> TRUE,
              val |-> [neg |-> neg,
                       m |-> StripTrailingZeros(nz),
                       e |-> ex.val + Len(ipart) - lead - 1]]

----------------------------------------------------------------------------
(* The frame model (src/resp/frame.rs)                                      *)

Frame(t, v) == [t |-> t, v |-> v]

SimpleString(s) == Frame("SimpleString", s)
SimpleError(s) == Frame("Error", s)
BulkError(b) == Frame("BulkError", b)
Integer(n) == Frame("Integer", n)
BulkString(b) == Frame("BulkString", b)
NullBulkString == Frame("NullBulkString", <<>>)
Array(fs) == Frame("Array", fs)
NullArray == Frame("NullArray", <<>>)
Null == Frame("Null", <<>>)
Boolean(b) == Frame("Boolean", b)
Double(d) == Frame("Double", d)
(* a RespMap is its BTreeMap in iteration order: <<key, value>> pairs       *)
(* sorted by key, keys distinct                                             *)
Map(kvs) == Frame("Map", kvs)
Set(fs) == Frame("Set", fs)

NoFrame == Frame("None", <<>>)

(* BTreeMap::insert on the sorted pair sequence *)
RECURSIVE BTreeInsert(_, _, _)
BTreeInsert(kvs, k, v) ==
    IF kvs = <<>> THEN <<<<k, v>>>>
    ELSE IF kvs[1][1] = k THEN <<<<k, v>>>> \o Tail(kvs)
    ELSE IF LexLess(k, kvs[1][1]) THEN <<<<k, v>>>> \o kvs
    ELSE <<kvs[1]>> \o BTreeInsert(Tail(kvs), k, v)

----------------------------------------------------------------------------
(* Encoder (impl RespEncode).  ok = FALSE is a panic of encode: the        *)
(* unwrap() of String::from_utf8 on a payload that is not UTF-8.           *)

EncOk(bytes) == [ok |-> TRUE, bytes |-> bytes]

EncPanic == [ok |-> FALSE, bytes |-> <<>>]

EncodeSimpleString(s) == EncOk(<<43>> \o s \o CRLF)

EncodeSimpleError(s) == EncOk(<<45>> \o s \o CRLF)

EncodeBulkError(b) ==
    IF Utf8Valid(b) THEN EncOk(<<33>> \o FmtNat(Len(b)) \o CRLF \o b \o CRLF)
    ELSE EncPanic

EncodeInteger(n) == EncOk(<<58>> \o FmtInt(n) \o CRLF)

EncodeBulkString(b) ==
    IF Utf8Valid(b) THEN EncOk(<<36>> \o FmtNat(Len(b)) \o CRLF \o b \o CRLF)
    ELSE EncPanic

EncodeNullBulkString == EncOk(<<36, 45, 49, 13, 10>>)

EncodeNullArray == EncOk(<<42, 45, 49, 13, 10>>)

EncodeNull == EncOk(<<95, 13, 10>>)

EncodeBool(b) == EncOk(<<35, IF b THEN 116 ELSE 102>> \o CRLF)

EncodeDouble(d) == EncOk(<<44>> \o FmtDouble(d) \o CRLF)

RECURSIVE Encode(_)

(* the loop `for frame in self.0 { buf.extend(frame.encode().unwrap()) }` *)
EncExtend(h, t) == IF h.ok /\ t.ok THEN EncOk(h.bytes \o t.bytes) ELSE EncPanic

RECURSIVE EncodeEach(_)
EncodeEach(fs) ==
    IF fs = <<>> THEN EncOk(<<>>)
    ELSE EncExtend(Encode(fs[1]), EncodeEach(Tail(fs)))

EncodeArray(fs) ==
    EncExtend(EncOk(<<42>> \o FmtNat(Len(fs)) \o CRLF), EncodeEach(fs))

EncodeSet(fs) ==
    EncExtend(EncOk(<<126>> \o FmtNat(Len(fs)) \o CRLF), EncodeEach(fs))

(* each entry: the key as a SimpleString, then the value *)
RECURSIVE EncodeEntries(_)
EncodeEntries(kvs) ==
    IF kvs = <<>> THEN EncOk(<<>>)
    ELSE EncExtend(EncodeSimpleString(kvs[1][1]),
                   EncExtend(Encode(kvs[1][2]), EncodeEntries(Tail(kvs))))

EncodeMap(kvs) ==
    EncExtend(EncOk(<<37>> \o FmtNat(Len(kvs)) \o CRLF), EncodeEntries(kvs))

(* RespFrame::encode, dispatched on the variant by enum_dispatch *)
Encode(f) ==
    CASE f.t = "SimpleString" -> EncodeSimpleString(f.v)
      [] f.t = "Error" -> EncodeSimpleError(f.v)
      [] f.t = "BulkError" -> EncodeBulkError(f.v)
      [] f.t = "Integer" -> EncodeInteger(f.v)
      [] f.t = "BulkString" -> EncodeBulkString(f.v)
      [] f.t = "NullBulkString" -> EncodeNullBulkString
      [] f.t = "Array" -> EncodeArray(f.v)
      [] f.t = "NullArray" -> EncodeNullArray
      [] f.t = "Null" -> EncodeNull
      [] f.t = "Boolean" -> EncodeBool(f.v)
      [] f.t = "Double" -> EncodeDouble(f.v)
      [] f.t = "Map" -> EncodeMap(f.v)
      [] f.t = "Set" -> EncodeSet(f.v)

----------------------------------------------------------------------------
(* Decoder (impl RespDecode).  A decode call returns                        *)
(*   r = "Ok":    the frame, and buf = the buffer after the call            *)
(*   r = "Err":   the RespDecodeError, and buf = the buffer after the call  *)
(*   r = "Panic": the call aborted (split_to / advance out of bounds)       *)

DecOk(f, b) == [r |-> "Ok", frame |-> f, err |-> "", buf |-> b]

DecErr(e, b) == [r |-> "Err", frame |-> NoFrame, err |-> e, buf |-> b]

DecPanic == [r |-> "Panic", frame |-> NoFrame, err |-> "", buf |-> <<>>]

(* find_nth_crlf(buf, 1): the 0-based position of the first CRLF, -1 for   *)
(* None                                                                     *)
FindCrlf(buf) ==
    IF \E i \in 1..(Len(buf) - 1) : buf[i] = 13 /\ buf[i + 1] = 10
    THEN (CHOOSE i \in 1..(Len(buf) - 1) :
              /\ buf[i] = 13 /\ buf[i + 1] = 10
              /\ \A j \in 1..(i - 1) : ~(buf[j] = 13 /\ buf[j + 1] = 10)) - 1
    ELSE -1

ExtractSimpleFrameData(buf, prefix) ==
    IF ~StartsWith(buf, <<prefix>>)
    THEN [r |-> "Err", err |-> "InvalidFrameType", pos |-> 0]
    ELSE IF FindCrlf(buf) >= 0
    THEN [r |-> "Ok", err |-> "", pos |-> FindCrlf(buf)]
    ELSE [r |-> "Err", err |-> "NotComplete", pos |-> 0]

(* parse_length: the header between the prefix byte and the first CRLF,    *)
(* parsed as usize                                                          *)
ParseLength(buf, prefix) ==
    LET e == ExtractSimpleFrameData(buf, prefix)
        n == ParseUsize(SubSeq(buf, 2, e.pos))
    IN  IF e.r # "Ok" THEN [r |-> "Err", err |-> e.err, pos |-> 0, len |-> 0]
        ELSE IF ~n.ok THEN [r |-> "Err", err |-> "ParseIntError", pos |-> 0, len |-> 0]
        ELSE [r |-> "Ok", err |-> "", pos |-> e.pos, len |-> n.val]

DecodeSimpleString(buf) ==
    LET e == ExtractSimpleFrameData(buf, 43)
    IN  IF e.r # "Ok" THEN DecErr(e.err, buf)
        ELSE DecOk(SimpleString(FromUtf8Lossy(SubSeq(buf, 2, e.pos))),
                   DropN(buf, e.pos + CRLF_LEN))

DecodeSimpleError(buf) ==
    LET e == ExtractSimpleFrameData(buf, 45)
    IN  IF e.r # "Ok" THEN DecErr(e.err, buf)
        ELSE DecOk(SimpleError(FromUtf8Lossy(SubSeq(buf, 2, e.pos))),
                   DropN(buf, e.pos + CRLF_LEN))

DecodeInteger(buf) ==
    LET e == ExtractSimpleFrameData(buf, 58)
        n == ParseI64(Trim(FromUtf8Lossy(SubSeq(buf, 2, e.pos))))
    IN  IF e.r # "Ok" THEN DecErr(e.err, buf)
        ELSE IF n.ok THEN DecOk(Integer(n.val), DropN(buf, e.pos + CRLF_LEN))
        ELSE DecErr("ParseIntError", DropN(buf, e.pos + CRLF_LEN))

DecodeDouble(buf) ==
    LET e == ExtractSimpleFrameData(buf, 44)
        d == ParseF64(Trim(FromUtf8Lossy(SubSeq(buf, 2, e.pos))))
    IN  IF e.r # "Ok" THEN DecErr(e.err, buf)
        ELSE IF d.ok THEN DecOk(Double(d.val), DropN(buf, e.pos + CRLF_LEN))
        ELSE DecErr("ParseFloatError", DropN(buf, e.pos + CRLF_LEN))

DecodeBool(buf) ==
    LET e == ExtractSimpleFrameData(buf, 35)
        s == Trim(FromUtf8Lossy(SubSeq(buf, 2, e.pos)))
    IN  IF e.r # "Ok" THEN DecErr(e.err, buf)
        ELSE IF s \in {<<116>>, <<102>>}
        THEN IF Len(buf) < 4 THEN DecPanic
             ELSE DecOk(Boolean(s = <<116>>), DropN(buf, 4))
        ELSE DecErr("InvalidFrame", buf)

(* `if buf == "_\r\n"`: the whole buffer is compared *)
DecodeNull(buf) ==
    IF buf = <<95, 13, 10>> THEN DecOk(Null, DropN(buf, 3))
    ELSE DecErr("InvalidFrame", buf)

(* `if buf == "$-1\r\n"` *)
DecodeNullBulkString(buf) ==
    IF buf = <<36, 45, 49, 13, 10>> THEN DecOk(NullBulkString, DropN(buf, 5))
    ELSE DecErr("InvalidFrame", buf)

(* `if buf == "*-1\r\n"` *)
DecodeNullArray(buf) ==
    IF buf = <<42, 45, 49, 13, 10>> THEN DecOk(NullArray, DropN(buf, 5))
    ELSE DecErr("InvalidFrame", buf)

(* a bulk string decoder that takes the payload without looking at the    *)
(* two bytes after it                                                       *)
DecodeBulkString_Unchecked(buf) ==
    LET pl == ParseLength(buf, 36)
        b1 == DropN(buf, pl.pos + CRLF_LEN)
    IN  IF pl.r # "Ok" THEN DecErr(pl.err, buf)
        ELSE IF pl.len + CRLF_LEN > Len(b1) THEN DecPanic
        ELSE DecOk(BulkString(TakeN(b1, pl.len)), DropN(b1, pl.len + CRLF_LEN))

(* advance past the header, then split_to(length + 2), which panics when   *)
(* the buffer is shorter                                                    *)
DecodeBulkString(buf) ==
    LET pl == ParseLength(buf, 36)
        b1 == DropN(buf, pl.pos + CRLF_LEN)
        chunk == TakeN(b1, pl.len + CRLF_LEN)
        b2 == DropN(b1, pl.len + CRLF_LEN)
    IN  IF pl.r # "Ok" THEN DecErr(pl.err, buf)
        ELSE IF pl.len + CRLF_LEN > Len(b1) THEN DecPanic
        ELSE IF DropN(chunk, pl.len) = CRLF
        THEN DecOk(BulkString(TakeN(chunk, pl.len)), b2)
        ELSE DecErr("InvalidFrame", b2)

(* src/resp/bulk_error.rs reads the header as a signed length: -1 is the   *)
(* empty error, any other negative length wraps in `as usize` and the      *)
(* split_to panics                                                          *)
DecodeBulkError(buf) ==
    LET e == ExtractSimpleFrameData(buf, 33)
        n == ParseI64(SubSeq(buf, 2, e.pos))
        b1 == DropN(buf, e.pos + CRLF_LEN)
        chunk == TakeN(b1, n.val + CRLF_LEN)
        b2 == DropN(b1, n.val + CRLF_LEN)
    IN  IF e.r # "Ok" THEN DecErr(e.err, buf)
        ELSE IF ~n.ok THEN DecErr("ParseIntError", buf)
        ELSE IF n.val = -1
        THEN IF Len(buf) < 5 THEN DecPanic ELSE DecOk(BulkError(<<>>), DropN(buf, 5))
        ELSE IF n.val < 0 \/ n.val + CRLF_LEN > Len(b1) THEN DecPanic
        ELSE IF DropN(chunk, n.val) = CRLF
        THEN DecOk(BulkError(TakeN(chunk, n.val)), b2)
        ELSE DecErr("InvalidFrame", b2)

RECURSIVE DecodeFrame(_)

(* `for _ in 0..length { frames.push(RespFrame::decode(buf)?) }`: the      *)
(* first child that fails ends the call with the buffer as that child left *)
(* it                                                                       *)
RECURSIVE DecodeChildren(_, _, _)

(* the `?` on a child's result c, then the rest of the loop *)
PushChild(c, n, acc) ==
    IF c.r # "Ok" THEN c
    ELSE DecodeChildren(c.buf, n - 1, Append(acc, c.frame))

DecodeChildren(buf, n, acc) ==
    IF n = 0 THEN DecOk(Array(acc), buf)
    ELSE PushChild(DecodeFrame(buf), n, acc)

(* the loop runs after `buf.advance(length_end_pos + CRLF_LEN)` *)
ChildrenAfterHeader(buf, pl) ==
    IF pl.r # "Ok" THEN DecErr(pl.err, buf)
    ELSE DecodeChildren(DropN(buf, pl.pos + CRLF_LEN), pl.len, <<>>)

DecodeArray(buf) == ChildrenAfterHeader(buf, ParseLength(buf, 42))

(* Self::new(frames) of RespSet *)
AsSet(c) == IF c.r # "Ok" THEN c ELSE DecOk(Set(c.frame.v), c.buf)

DecodeSet(buf) == AsSet(ChildrenAfterHeader(buf, ParseLength(buf, 126)))

(* `for _ in 0..length { key = RespSimpleString::decode(buf)?;             *)
(*                       value = RespFrame::decode(buf)?; insert }`        *)
RECURSIVE DecodeEntries(_, _, _)

(* the `?` on the value's result v, then frames.insert(key, value) *)
InsertEntry(k, v, n, acc) ==
    IF v.r # "Ok" THEN v
    ELSE DecodeEntries(v.buf, n - 1, BTreeInsert(acc, k.frame.v, v.frame))

(* the `?` on the key's result k, then the value *)
EntryValue(k, n, acc) ==
    IF k.r # "Ok" THEN k
    ELSE InsertEntry(k, DecodeFrame(k.buf), n, acc)

DecodeEntries(buf, n, acc) ==
    IF n = 0 THEN DecOk(Map(acc), buf)
    ELSE EntryValue(DecodeSimpleString(buf), n, acc)

EntriesAfterHeader(buf, pl) ==
    IF pl.r # "Ok" THEN DecErr(pl.err, buf)
    ELSE DecodeEntries(DropN(buf, pl.pos + CRLF_LEN), pl.len, <<>>)

DecodeMap(buf) == EntriesAfterHeader(buf, ParseLength(buf, 37))

(* RespFrame::decode *)
DecodeFrame(buf) ==
    IF Len(buf) < 3 THEN DecErr("NotComplete", buf)
    ELSE CASE buf[1] = 43 -> DecodeSimpleString(buf)
           [] buf[1] = 45 -> DecodeSimpleError(buf)
           [] buf[1] = 33 -> DecodeBulkError(buf)
           [] buf[1] = 58 -> DecodeInteger(buf)
           [] buf[1] = 36 ->
                (* try null bulk string first *)
                IF DecodeNullBulkString(buf).r = "Ok" THEN DecodeNullBulkString(buf)
                ELSE IF DecodeNullBulkString(buf).err = "NotComplete"
                THEN DecErr("NotComplete", buf)
                ELSE DecodeBulkString(buf)
           [] buf[1] = 42 ->
                IF DecodeNullArray(buf).r = "Ok" THEN DecodeNullArray(buf)
                ELSE IF DecodeNullArray(buf).err = "NotComplete"
                THEN DecErr("NotComplete", buf)
                ELSE DecodeArray(buf)
           [] buf[1] = 37 -> DecodeMap(buf)
           [] buf[1] = 126 -> DecodeSet(buf)
           [] buf[1] = 95 -> DecodeNull(buf)
           [] buf[1] = 35 -> DecodeBool(buf)
           [] buf[1] = 44 -> DecodeDouble(buf)
           [] OTHER -> DecErr("InvalidFrame", buf)

----------------------------------------------------------------------------
(* Store (src/backend/mod.rs).  A DashMap is the function from the keys it *)
(* holds to their values.                                                   *)

EmptyMap == [k \in {} |-> NoFrame]

None == [some |-> FALSE, v |-> NoFrame]

Some(v) == [some |-> TRUE, v |-> v]

(* DashMap::insert *)
MapInsert(m, key, value) ==
    [k \in DOMAIN m \cup {key} |-> IF k = key THEN value ELSE m[k]]

BackendGet(m, key) == IF key \in DOMAIN m THEN Some(m[key]) ELSE None

(* a set that keeps the value a key already has *)
BackendSet_KeepFirst(m, key, value) ==
    IF key \in DOMAIN m THEN m ELSE MapInsert(m, key, value)

BackendSet(m, key, value) == MapInsert(m, key, value)

BackendHGet(hm, key, field) ==
    IF key \in DOMAIN hm /\ field \in DOMAIN hm[key] THEN Some(hm[key][field])
    ELSE None

(* an hset that replaces the whole hash of the key by the one field *)
BackendHSet_Replace(hm, key, field, value) ==
    MapInsert(hm, key, MapInsert(EmptyMap, field, value))

(* self.hmap.entry(key).or_default(), then insert(field, value) *)
BackendHSet(hm, key, field, value) ==
    MapInsert(hm, key,
              MapInsert(IF key \in DOMAIN hm THEN hm[key] ELSE EmptyMap, field, value))

(* the two statements of Backend::hset, for handlers that run in parallel: *)
(* an entry that puts a new inner map in place of the one the key has *)
EntryOrDefault_Fresh(hm, key) == MapInsert(hm, key, EmptyMap)

(* self.hmap.entry(key).or_default(): the inner map of key, created empty  *)
(* if the key has none, under the write lock of the key's shard            *)
EntryOrDefault(hm, key) ==
    IF key \in DOMAIN hm THEN hm ELSE MapInsert(hm, key, EmptyMap)

(* hmap.insert(field, value) through the RefMut that entry returned *)
InnerInsert(hm, key, field, value) ==
    MapInsert(hm, key, MapInsert(hm[key], field, value))

----------------------------------------------------------------------------
(* Commands (src/cmd).  The argument of every try_from is the Vec of the   *)
(* RespArray.                                                               *)

(* "OK" *)
RESP_OK == SimpleString(<<79, 75>>)

(* "Unknown command" *)
RESP_UNKNOWNN_COMMAND ==
    SimpleError(<<85, 110, 107, 110, 111, 119, 110, 32, 99, 111, 109, 109, 97, 110, 100>>)

NAME_GET == <<103, 101, 116>>
NAME_SET == <<115, 101, 116>>
NAME_HGET == <<104, 103, 101, 116>>
NAME_HSET == <<104, 115, 101, 116>>
NAME_HGETALL == <<104, 103, 101, 116, 97, 108, 108>>
NAME_HMGET == <<104, 109, 103, 101, 116>>
NAME_ECHO == <<101, 99, 104, 111>>

NoCommand == [c |-> "None"]

CmdOk(c) == [r |-> "Ok", cmd |-> c, err |-> ""]

CmdErr(e) == [r |-> "Err", cmd |-> NoCommand, err |-> e]

(* todo!(), unwrap() on an Err, index out of bounds *)
CmdPanic == [r |-> "Panic", cmd |-> NoCommand, err |-> ""]

IsBulk(value, i) == Len(value) >= i /\ value[i].t = "BulkString"

(* a validate_command that lets surplus arguments through *)
ValidateCommand_AtLeast(value, command_names, n_args) ==
    IF Len(value) < Len(command_names) + n_args THEN "InvalidCommandArguments"
    ELSE IF \E i \in 1..Len(command_names) :
                ~(value[i].t = "BulkString"
                  /\ ToAsciiLowercase(value[i].v) = command_names[i])
    THEN "InvalidCommand"
    ELSE "Ok"

(* validate_command: "Ok" or the CommandError *)
ValidateCommand(value, command_names, n_args) ==
    IF Len(value) # Len(command_names) + n_args THEN "InvalidCommandArguments"
    ELSE IF \E i \in 1..Len(command_names) :
                ~(value[i].t = "BulkString"
                  /\ ToAsciiLowercase(value[i].v) = command_names[i])
    THEN "InvalidCommand"
    ELSE "Ok"

CommandGetTryFrom(value) ==
    IF ValidateCommand(value, <<NAME_GET>>, 1) # "Ok"
    THEN CmdErr(ValidateCommand(value, <<NAME_GET>>, 1))
    ELSE IF IsBulk(value, 2)
    THEN CmdOk([c |-> "Get", key |-> FromUtf8Lossy(value[2].v)])
    ELSE CmdErr("InvalidCommandArguments")

CommandSetTryFrom(value) ==
    IF ValidateCommand(value, <<NAME_SET>>, 2) # "Ok"
    THEN CmdErr(ValidateCommand(value, <<NAME_SET>>, 2))
    ELSE IF IsBulk(value, 2)
    THEN IF Utf8Valid(value[2].v)
         THEN CmdOk([c |-> "Set", key |-> value[2].v, value |-> value[3]])
         ELSE CmdErr("FromUtf8Error")
    ELSE CmdErr("InvalidCommandArguments")

CommandHGetTryFrom(value) ==
    IF ValidateCommand(value, <<NAME_HGET>>, 2) # "Ok"
    THEN CmdErr(ValidateCommand(value, <<NAME_HGET>>, 2))
    ELSE IF IsBulk(value, 2) /\ IsBulk(value, 3)
    THEN IF Utf8Valid(value[2].v) /\ Utf8Valid(value[3].v)
         THEN CmdOk([c |-> "HGet", key |-> value[2].v, field |-> value[3].v])
         ELSE CmdErr("FromUtf8Error")
    ELSE CmdErr("InvalidCommandArguments")

(* an hset conversion that takes any frame as the value *)
CommandHSetTryFrom_AnyValue(value) ==
    IF ValidateCommand(value, <<NAME_HSET>>, 3) # "Ok"
    THEN CmdErr(ValidateCommand(value, <<NAME_HSET>>, 3))
    ELSE IF IsBulk(value, 2) /\ IsBulk(value, 3)
    THEN IF Utf8Valid(value[2].v) /\ Utf8Valid(value[3].v)
         THEN CmdOk([c |-> "HSet", key |-> value[2].v, field |-> value[3].v,
                     value |-> value[4]])
         ELSE CmdErr("FromUtf8Error")
    ELSE CmdErr("InvalidCommandArguments")

CommandHSetTryFrom(value) ==
    IF ValidateCommand(value, <<NAME_HSET>>, 3) # "Ok"
    THEN CmdErr(ValidateCommand(value, <<NAME_HSET>>, 3))
    ELSE IF IsBulk(value, 2) /\ IsBulk(value, 3) /\ IsBulk(value, 4)
    THEN IF Utf8Valid(value[2].v) /\ Utf8Valid(value[3].v)
         THEN CmdOk([c |-> "HSet", key |-> value[2].v, field |-> value[3].v,
                     value |-> BulkString(value[4].v)])
         ELSE CmdErr("FromUtf8Error")
    ELSE CmdErr("InvalidCommandArguments")

CommandHGetAllTryFrom(value) ==
    IF ValidateCommand(value, <<NAME_HGETALL>>, 1) # "Ok"
    THEN CmdErr(ValidateCommand(value, <<NAME_HGETALL>>, 1))
    ELSE IF IsBulk(value, 2)
    THEN IF Utf8Valid(value[2].v)
         THEN CmdOk([c |-> "HGetAll", key |-> value[2].v, sort |-> FALSE])
         ELSE CmdErr("FromUtf8Error")
    ELSE CmdErr("InvalidCommandArguments")

CommandEchoTryFrom(value) ==
    IF ValidateCommand(value, <<NAME_ECHO>>, 1) # "Ok"
    THEN CmdErr(ValidateCommand(value, <<NAME_ECHO>>, 1))
    ELSE IF IsBulk(value, 2)
    THEN CmdOk([c |-> "Echo", value |-> FromUtf8Lossy(value[2].v)])
    ELSE CmdErr("InvalidCommandArguments")

(* the fields an hmget request carries: the BulkStrings after the key; any *)
(* other frame is logged and skipped                                        *)
RECURSIVE StringFields(_)
StringFields(args) ==
    IF args = <<>> THEN <<>>
    ELSE IF args[1].t = "BulkString" THEN <<args[1].v>> \o StringFields(Tail(args))
    ELSE StringFields(Tail(args))

(* CommandHMGet::try_from.  n_args = value.len() - 1 underflows on the     *)
(* empty array; String::from_utf8(field).unwrap() panics on a field that   *)
(* is not UTF-8                                                             *)
CommandHMGetTryFrom(value) ==
    IF Len(value) = 0 THEN CmdPanic
    ELSE IF ValidateCommand(value, <<NAME_HMGET>>, Len(value) - 1) # "Ok"
    THEN CmdErr(ValidateCommand(value, <<NAME_HMGET>>, Len(value) - 1))
    ELSE IF IsBulk(value, 2)
    THEN IF \E i \in 3..Len(value) : value[i].t = "BulkString" /\ ~Utf8Valid(value[i].v)
         THEN CmdPanic
         ELSE IF Len(StringFields(DropN(value, 2))) # (Len(value) - 1) - 1
         THEN CmdErr("InvalidCommandArguments")
         ELSE IF Utf8Valid(value[2].v)
         THEN CmdOk([c |-> "HMGet", key |-> value[2].v,
                     fields |-> StringFields(DropN(value, 2))])
         ELSE CmdErr("FromUtf8Error")
    ELSE CmdErr("InvalidCommandArguments")

(* Command::try_from: the dispatcher.  The name is matched byte for byte.  *)
CommandTryFrom(value) ==
    IF IsBulk(value, 1)
    THEN CASE value[1].v = NAME_GET -> CommandGetTryFrom(value)
           [] value[1].v = NAME_SET -> CommandSetTryFrom(value)
           [] value[1].v = NAME_HGET -> CommandHGetTryFrom(value)
           [] value[1].v = NAME_HSET -> CommandHSetTryFrom(value)
           [] value[1].v = NAME_HGETALL -> CommandHGetAllTryFrom(value)
           [] value[1].v = NAME_ECHO -> CommandEchoTryFrom(value)
           [] OTHER -> CmdOk([c |-> "Unknown"])
    ELSE CmdPanic

----------------------------------------------------------------------------
(* Executors (impl CommandExecutor).  An execution returns the response    *)
(* frame and the store after it.                                            *)

Done(f, m, hm) == [frame |-> f, map |-> m, hmap |-> hm]

OrNull(o) == IF o.some THEN o.v ELSE Null

(* the orders in which DashMap::iter may visit the keys of inner map h *)
IterOrders(h) ==
    {o \in [1..Cardinality(DOMAIN h) -> DOMAIN h] :
        \A i, j \in 1..Cardinality(DOMAIN h) : i # j => o[i] # o[j]}

(* order o sorted by field, for the `sort` flag *)
SortedOrder(h) ==
    CHOOSE o \in IterOrders(h) : \A i \in 1..(Len(o) - 1) : LexLess(o[i], o[i + 1])

(* flat_map(|(k, v)| vec![BulkString(k), v]) over the visited pairs *)
RECURSIVE FlatPairs(_, _)
FlatPairs(h, o) ==
    IF o = <<>> THEN <<>>
    ELSE <<BulkString(o[1]), h[o[1]]>> \o FlatPairs(h, Tail(o))

ExecuteGet(cmd, m, hm) == Done(OrNull(BackendGet(m, cmd.key)), m, hm)

(* a set that keeps every value in the one slot "a" *)
ExecuteSet_OneSlot(cmd, m, hm) == Done(RESP_OK, BackendSet(m, <<97>>, cmd.value), hm)

ExecuteSet(cmd, m, hm) == Done(RESP_OK, BackendSet(m, cmd.key, cmd.value), hm)

(* an hget that leaves an empty hash behind for a key that has none *)
ExecuteHGet_Vivify(cmd, m, hm) ==
    Done(OrNull(BackendHGet(hm, cmd.key, cmd.field)), m, EntryOrDefault(hm, cmd.key))

ExecuteHGet(cmd, m, hm) == Done(OrNull(BackendHGet(hm, cmd.key, cmd.field)), m, hm)

ExecuteHSet(cmd, m, hm) ==
    Done(RESP_OK, m, BackendHSet(hm, cmd.key, cmd.field, cmd.value))

(* o: the order in which hmap.iter() visits the inner map *)
(* an hgetall that leaves out the pair it visits first *)
ExecuteHGetAll_SkipFirst(cmd, m, hm, o) ==
    IF cmd.key \in DOMAIN hm
    THEN Done(Array(FlatPairs(hm[cmd.key], Tail(o))), m, hm)
    ELSE Done(Null, m, hm)

ExecuteHGetAll(cmd, m, hm, o) ==
    IF cmd.key \in DOMAIN hm
    THEN Done(Array(FlatPairs(hm[cmd.key],
                              IF cmd.sort THEN SortedOrder(hm[cmd.key]) ELSE o)),
              m, hm)
    ELSE Done(Null, m, hm)

(* an hmget that leaves the fields it does not find out of the answer *)
ExecuteHMGet_SkipMisses(cmd, m, hm) ==
    IF cmd.key \in DOMAIN hm
    THEN Done(Array(SelectSeq([i \in 1..Len(cmd.fields) |->
                                  IF cmd.fields[i] \in DOMAIN hm[cmd.key]
                                  THEN hm[cmd.key][cmd.fields[i]]
                                  ELSE Null],
                              LAMBDA f : f # Null)),
              m, hm)
    ELSE Done(Null, m, hm)

ExecuteHMGet(cmd, m, hm) ==
    IF cmd.key \in DOMAIN hm
    THEN Done(Array([i \in 1..Len(cmd.fields) |->
                        IF cmd.fields[i] \in DOMAIN hm[cmd.key]
                        THEN hm[cmd.key][cmd.fields[i]]
                        ELSE Null]),
              m, hm)
    ELSE Done(Null, m, hm)

ExecuteEcho(cmd, m, hm) == Done(BulkString(cmd.value), m, hm)

(* an unknown command that answers +OK *)
ExecuteUnknown_Ok(cmd, m, hm) == Done(RESP_OK, m, hm)

ExecuteUnknown(cmd, m, hm) == Done(RESP_UNKNOWNN_COMMAND, m, hm)

(* the iteration orders an execution of cmd may see *)
OrdersFor(cmd, hm) ==
    IF cmd.c = "HGetAll" /\ cmd.key \in DOMAIN hm THEN IterOrders(hm[cmd.key])
    ELSE {<<>>}

(* Command::execute, dispatched on the variant by enum_dispatch *)
Execute(cmd, m, hm, o) ==
    CASE cmd.c = "Get" -> ExecuteGet(cmd, m, hm)
      [] cmd.c = "Set" -> ExecuteSet(cmd, m, hm)
      [] cmd.c = "HGet" -> ExecuteHGet(cmd, m, hm)
      [] cmd.c = "HSet" -> ExecuteHSet(cmd, m, hm)
      [] cmd.c = "HGetAll" -> ExecuteHGetAll(cmd, m, hm, o)
      [] cmd.c = "HMGet" -> ExecuteHMGet(cmd, m, hm)
      [] cmd.c = "Echo" -> ExecuteEcho(cmd, m, hm)
      [] cmd.c = "Unknown" -> ExecuteUnknown(cmd, m, hm)

----------------------------------------------------------------------------
(* State                                                                    *)

VARIABLES
    (* codec harness: one frame is encoded, its bytes are fed to a decoder *)
    (* in two parts, with a decode call after each part                     *)
    frame,      \* the frame that is encoded
    entry,      \* "frame": RespFrame::decode, "typed": the variant's decoder
    encoded,    \* result of encode(frame), or NotEncoded
    cut,        \* number of bytes in the first part
    buf,        \* the BytesMut handed to decode, as the last call left it
    before,     \* the buffer as it was when the last decode call started
    first,      \* result of the decode call after the first part
    second,     \* result of the decode call after the rest was appended
    step,       \* "new", "encoded", "encodePanic", "fed1", "fed2"
    input,      \* the bytes a decode of received bytes started from
    (* the store and the handling of one request after another *)
    map,        \* BackendInner.map
    hmap,       \* BackendInner.hmap
    request,    \* the Vec of the RespArray handled last
    via,        \* "dispatch": Command::try_from, "direct": CommandHMGet::try_from
    command,    \* what try_from returned for it
    response,   \* what the handling returned
    lastSet,    \* history: key -> value of the last Set command executed
    lastHSet,   \* history: <<key, field>> -> value of the last HSet executed
    (* one connection: stream_handler over Framed<TcpStream, RespFrameCodec> *)
    reqs,       \* the request arrays the client sends, in order
    wire,       \* bytes the client has sent that the server has not read yet
    peerClosed, \* the client has closed its end
    rbuf,       \* the read buffer of Framed
    eof,        \* Framed has read end-of-stream
    pc,         \* "reading": waiting for the socket, "readable": buffer to decode
    conn,       \* "open", "closed" (handler returned Ok), "error" (returned Err),
                \* "panic" (the task aborted)
    seen,       \* the read buffer as the last codec decode call found it
    served,     \* history: the request arrays the codec has decoded, in order
    out,        \* the response frames written to the socket, in order
    (* several handlers on clones of one Backend (src/main.rs) *)
    clients,    \* per handler: where it is in its request, the request, the
                \* response, and for a get the floor taken when it started
    hist,       \* history: per key, the values set, in the order set took effect
    doneVer,    \* history: per key, the highest position in hist of a set
                \* whose response has been sent
    issued      \* the number of requests begun

codecVars == <<frame, entry, encoded, cut, buf, before, first, second, step, input>>

storeVars == <<map, hmap>>

cmdVars == <<request, via, command, response, lastSet, lastHSet>>

connVars == <<reqs, wire, peerClosed, rbuf, eof, pc, conn, seen, served, out>>

sharedVars == <<clients, hist, doneVer, issued>>

vars == <<codecVars, storeVars, cmdVars, connVars, sharedVars>>

----------------------------------------------------------------------------
(* Bounds of the codec harness                                              *)

MaxChildren == 2

(* "OK", "", "E", "e", "a", one byte that is not UTF-8 *)
Scalars ==
    { SimpleString(<<79, 75>>), SimpleString(<<>>), SimpleError(<<69>>),
      BulkError(<<101>>), Integer(0), Integer(-1), Integer(12),
      BulkString(<<>>), BulkString(<<97>>), BulkString(<<255>>),
      NullBulkString, NullArray, Null, Boolean(TRUE), Boolean(FALSE),
      Double([neg |-> FALSE, m |-> <<1, 5>>, e |-> 0]),
      Double([neg |-> TRUE, m |-> <<1, 2>>, e |-> -8]) }

ChildFrames ==
    { BulkString(<<97>>), NullBulkString, NullArray, Null, Boolean(TRUE),
      Integer(-1), Array(<<BulkString(<<97>>)>>) }

SeqsUpTo(S, n) == UNION {[1..k -> S] : k \in 0..n}

(* maps with keys among "a", "b", in key order *)
MapBodies ==
    {<<>>}
    \cup {<<<<k, v>>>> : k \in {<<97>>, <<98>>}, v \in ChildFrames}
    \cup (IF MaxChildren >= 2
          THEN {<<<<<<97>>, v>>, <<<<98>>, w>>>> : v \in ChildFrames, w \in ChildFrames}
          ELSE {})

CodecFrames ==
    Scalars
    \cup {Array(fs) : fs \in SeqsUpTo(ChildFrames, MaxChildren)}
    \cup {Set(fs) : fs \in SeqsUpTo(ChildFrames, MaxChildren)}
    \cup {Map(kvs) : kvs \in MapBodies}

NotEncoded == [ok |-> FALSE, bytes |-> <<>>]

NoResult == [r |-> "None", frame |-> NoFrame, err |-> "", buf |-> <<>>]

(* the decoder of the frame's own type, as the unit tests call it *)
TypedDecode(t, b) ==
    CASE t = "SimpleString" -> DecodeSimpleString(b)
      [] t = "Error" -> DecodeSimpleError(b)
      [] t = "BulkError" -> DecodeBulkError(b)
      [] t = "Integer" -> DecodeInteger(b)
      [] t = "BulkString" -> DecodeBulkString(b)
      [] t = "NullBulkString" -> DecodeNullBulkString(b)
      [] t = "Array" -> DecodeArray(b)
      [] t = "NullArray" -> DecodeNullArray(b)
      [] t = "Null" -> DecodeNull(b)
      [] t = "Boolean" -> DecodeBool(b)
      [] t = "Double" -> DecodeDouble(b)
      [] t = "Map" -> DecodeMap(b)
      [] t = "Set" -> DecodeSet(b)

DecodeVia(e, t, b) == IF e = "frame" THEN DecodeFrame(b) ELSE TypedDecode(t, b)

----------------------------------------------------------------------------
(* The codec harness                                                        *)

NoResponse == [r |-> "None", frame |-> NoFrame, err |-> ""]

NoTryFrom == [r |-> "None", cmd |-> NoCommand, err |-> ""]

(* Backend::new(), no request handled yet *)
StoreInit ==
    /\ map = EmptyMap
    /\ hmap = EmptyMap
    /\ request = <<>>
    /\ via = "none"
    /\ command = NoTryFrom
    /\ response = NoResponse
    /\ lastSet = EmptyMap
    /\ lastHSet = EmptyMap

(* no connection *)
ConnIdle ==
    /\ reqs = <<>>
    /\ wire = <<>>
    /\ peerClosed = FALSE
    /\ rbuf = <<>>
    /\ eof = FALSE
    /\ pc = "reading"
    /\ conn = "none"
    /\ seen = <<>>
    /\ served = <<>>
    /\ out = <<>>

(* no handlers *)
SharedIdle ==
    /\ clients = <<>>
    /\ hist = EmptyMap
    /\ doneVer = EmptyMap
    /\ issued = 0

CodecInit ==
    /\ StoreInit
    /\ ConnIdle
    /\ SharedIdle
    /\ frame \in CodecFrames
    /\ entry \in {"frame", "typed"}
    /\ encoded = NotEncoded
    /\ cut = 0
    /\ buf = <<>>
    /\ before = <<>>
    /\ first = NoResult
    /\ second = NoResult
    /\ step = "new"
    /\ input = <<>>

(* frame.encode() *)
EncodeFrame ==
    /\ step = "new"
    /\ encoded' = Encode(frame)
    /\ step' = IF Encode(frame).ok THEN "encoded" ELSE "encodePanic"
    /\ UNCHANGED <<frame, entry, cut, buf, before, first, second, input, storeVars, cmdVars, connVars, sharedVars>>

(* buf.extend_from_slice(first part); decode(&mut buf) *)
FeedFirst ==
    /\ step = "encoded"
    /\ \E n \in 0..Len(encoded.bytes) :
          /\ cut' = n
          /\ before' = TakeN(encoded.bytes, n)
          /\ first' = DecodeVia(entry, frame.t, TakeN(encoded.bytes, n))
    /\ buf' = first'.buf
    /\ step' = "fed1"
    /\ UNCHANGED <<frame, entry, encoded, second, input, storeVars, cmdVars, connVars, sharedVars>>

(* buf.extend_from_slice(rest); decode(&mut buf) again.  A call that       *)
(* panicked has unwound the caller: there is no second call.               *)
FeedRest ==
    /\ step = "fed1"
    /\ first.r = "Err"
    /\ before' = buf \o DropN(encoded.bytes, cut)
    /\ second' = DecodeVia(entry, frame.t, before')
    /\ buf' = second'.buf
    /\ step' = "fed2"
    /\ UNCHANGED <<frame, entry, encoded, cut, first, input, storeVars, cmdVars, connVars, sharedVars>>

CodecNext == EncodeFrame \/ FeedFirst \/ FeedRest

SpecCodec == CodecInit /\ [][CodecNext]_vars

----------------------------------------------------------------------------
(* Decoding received bytes: a buffer holds bytes as they came from a peer, *)
(* well-formed or not, and decode is called on it, and called again on     *)
(* what a successful call left.                                             *)

(* the frames whose encodings are received, one after another *)
WireFrames ==
    { SimpleString(<<79, 75>>), SimpleError(<<69>>), BulkError(<<101>>),
      Integer(-1), BulkString(<<97>>), NullBulkString, NullArray, Null,
      Boolean(TRUE), Double([neg |-> FALSE, m |-> <<1, 5>>, e |-> 0]),
      Array(<<BulkString(<<97>>)>>), Array(<<NullBulkString, Integer(-1)>>),
      Array(<<NullArray, BulkString(<<97>>)>>),
      Set(<<Integer(-1)>>), Map(<<<<<<97>>, Integer(-1)>>>>) }

Wire(f) == Encode(f).bytes

(* one frame, and two frames back to back *)
BackToBack ==
    {Wire(f) : f \in WireFrames}
    \cup {Wire(f) \o Wire(g) : f \in WireFrames, g \in WireFrames}

(* '$', '*', '+', '_', 'x', '1', CR, LF *)
ShortBytes == {36, 42, 43, 95, 120, 49, 13, 10}

(* every buffer of fewer than three of these bytes *)
ShortBuffers == SeqsUpTo(ShortBytes, 2)

(* the blobs $2 ab and !2 ef cut anywhere *)
CutBlobs ==
    {TakeN(Wire(f), n) : f \in {BulkString(<<97, 98>>), BulkError(<<101, 102>>)},
                         n \in 0..8}

(* blobs whose payload is not followed by CRLF:                            *)
(* $1 aXY, $1 ab CRLF, $1 a CR X, $0 XY, $1 a LF CR, and the same with !   *)
BadBlobs ==
    {<<p>> \o b : p \in {36, 33},
                 b \in { <<49, 13, 10, 97, 88, 89>>,
                         <<49, 13, 10, 97, 98, 13, 10>>,
                         <<49, 13, 10, 97, 13, 88>>,
                         <<48, 13, 10, 88, 89>>,
                         <<49, 13, 10, 97, 10, 13>> }}

(* a first byte that is no prefix: x1 CRLF, ?OK CRLF, 1 CRLF CRLF *)
UnknownPrefixed ==
    { <<120, 49, 13, 10>>, <<63, 79, 75, 13, 10>>, <<49, 13, 10, 13, 10>> }

RawBuffers == BackToBack \cup ShortBuffers \cup CutBlobs \cup BadBlobs \cup UnknownPrefixed

FrameTypes ==
    {"SimpleString", "Error", "BulkError", "Integer", "BulkString",
     "NullBulkString", "Array", "NullArray", "Null", "Boolean", "Double",
     "Map", "Set"}

(* const FIRST_BYTE of the decoder of frame type t *)
FIRST_BYTE(t) ==
    CASE t = "SimpleString" -> 43
      [] t = "Error" -> 45
      [] t = "BulkError" -> 33
      [] t = "Integer" -> 58
      [] t \in {"BulkString", "NullBulkString"} -> 36
      [] t \in {"Array", "NullArray"} -> 42
      [] t = "Null" -> 95
      [] t = "Boolean" -> 35
      [] t = "Double" -> 44
      [] t = "Map" -> 37
      [] t = "Set" -> 126

(* T::decode(&mut b): e is "frame" for RespFrame, else the frame type T *)
DecodeBy(e, b) == IF e = "frame" THEN DecodeFrame(b) ELSE TypedDecode(e, b)

RawInit ==
    /\ StoreInit
    /\ ConnIdle
    /\ SharedIdle
    /\ frame = NoFrame
    /\ entry \in {"frame"} \cup FrameTypes
    /\ encoded = NotEncoded
    /\ cut = 0
    /\ input \in RawBuffers
    /\ buf = input
    /\ before = <<>>
    /\ first = NoResult
    /\ second = NoResult
    /\ step = "new"

(* decode(&mut buf) on the received bytes *)
DecodeInput ==
    /\ step = "new"
    /\ before' = buf
    /\ first' = DecodeBy(entry, buf)
    /\ buf' = first'.buf
    /\ step' = "fed1"
    /\ UNCHANGED <<frame, entry, encoded, cut, second, input, storeVars, cmdVars, connVars, sharedVars>>

(* decode(&mut buf) again, on the bytes the first call left *)
DecodeFollowing ==
    /\ step = "fed1"
    /\ first.r = "Ok"
    /\ buf # <<>>
    /\ before' = buf
    /\ second' = DecodeBy(entry, buf)
    /\ buf' = second'.buf
    /\ step' = "fed2"
    /\ UNCHANGED <<frame, entry, encoded, cut, first, input, storeVars, cmdVars, connVars, sharedVars>>

RawNext == DecodeInput \/ DecodeFollowing

SpecRaw == RawInit /\ [][RawNext]_vars

----------------------------------------------------------------------------
(* Claims about the codec, checked under SpecCodec                          *)

LastResult == IF step = "fed2" THEN second ELSE first

Decoded == step \in {"fed1", "fed2"}

(* decode(E) in one piece *)
WholeDecode == DecodeVia(entry, frame.t, encoded.bytes)

(* C1: whenever a decode call returns NotComplete, the buffer holds        *)
(* exactly the bytes it held before the call.                               *)
C1_NotCompleteLeavesBuffer ==
    (Decoded /\ LastResult.r = "Err" /\ LastResult.err = "NotComplete")
        => buf = before

(* C2: for every split of an encoded frame into a non-empty first part and *)
(* a rest, the decode after the first part returns NotComplete (the frame  *)
(* when the first part is everything), and the decode after the rest       *)
(* returns what decoding the whole encoding returns.                        *)
C2_IncrementalDecode ==
    /\ (step = "fed1" /\ cut > 0 /\ cut < Len(encoded.bytes))
          => (first.r = "Err" /\ first.err = "NotComplete")
    /\ (step = "fed1" /\ cut = Len(encoded.bytes))
          => (first.r = WholeDecode.r /\ first.frame = WholeDecode.frame)
    /\ (step = "fed2" /\ cut > 0)
          => (second.r = WholeDecode.r /\ second.frame = WholeDecode.frame)

(* C4: decoding the bytes produced by encode(f) returns a frame equal to f *)
(* and consumes exactly those bytes.                                        *)
C4_RoundTrip ==
    (step = "fed1" /\ cut = Len(encoded.bytes))
        => (first.r = "Ok" /\ first.frame = frame /\ buf = <<>>)

(* C18: encoding never fails: once encode has been called on a frame, it   *)
(* has returned its bytes, whatever bytes a BulkString or BulkError in the *)
(* frame carries.                                                           *)
C18_EncodeNeverFails ==
    step # "new" => (step # "encodePanic" /\ encoded.ok)

----------------------------------------------------------------------------
(* The command pipeline: request arrays are handled one after another      *)
(* against one store, as request_handler does with a decoded array.         *)

MaxFields == 2

(* "a", "b" *)
Keys == {<<97>>, <<98>>}

(* "f", "g" *)
Fields == {<<102>>, <<103>>}

(* "1", "2" *)
HashValues == {BulkString(<<49>>), BulkString(<<50>>)}

SetValues == {BulkString(<<49>>), Integer(7)}

(* "GET", "Get" *)
GetSpellings == {NAME_GET, <<71, 69, 84>>, <<71, 101, 116>>}

(* "NOPE" *)
NAME_NOPE == <<78, 79, 80, 69>>

Req(name, args) == <<BulkString(name)>> \o args

HMGetRequests ==
    {Req(NAME_HMGET, <<BulkString(k)>> \o fs) :
        k \in Keys, fs \in SeqsUpTo({BulkString(f) : f \in Fields}, MaxFields)}

Requests ==
    {Req(n, <<BulkString(k)>>) :
        n \in GetSpellings \cup {NAME_HGETALL, NAME_ECHO}, k \in Keys}
    \cup {Req(NAME_ECHO, <<BulkString(<<255>>)>>)}
    \cup {Req(NAME_SET, <<BulkString(k), v>>) : k \in Keys, v \in SetValues}
    \cup {Req(NAME_HGET, <<BulkString(k), BulkString(f)>>) : k \in Keys, f \in Fields}
    \cup {Req(NAME_HSET, <<BulkString(k), BulkString(f), v>>) :
            k \in Keys, f \in Fields, v \in HashValues}
    \cup {Req(NAME_HSET, <<BulkString(<<97>>), BulkString(<<102>>), Integer(7)>>)}
    \cup HMGetRequests
    \cup {Req(NAME_NOPE, args) : args \in SeqsUpTo({BulkString(<<97>>)}, MaxFields)}

CodecIdle ==
    /\ frame = NoFrame
    /\ entry = "frame"
    /\ encoded = NotEncoded
    /\ cut = 0
    /\ buf = <<>>
    /\ before = <<>>
    /\ first = NoResult
    /\ second = NoResult
    /\ step = "new"
    /\ input = <<>>

Init == StoreInit /\ CodecIdle /\ ConnIdle /\ SharedIdle

(* cmd.execute(&backend) returned d *)
Executed(cmd, d) ==
    /\ response' = [r |-> "Ok", frame |-> d.frame, err |-> ""]
    /\ map' = d.map
    /\ hmap' = d.hmap
    /\ lastSet' = IF cmd.c = "Set"
                  THEN [k \in DOMAIN lastSet \cup {cmd.key} |->
                            IF k = cmd.key THEN cmd.value ELSE lastSet[k]]
                  ELSE lastSet
    /\ lastHSet' = IF cmd.c = "HSet"
                   THEN [p \in DOMAIN lastHSet \cup {<<cmd.key, cmd.field>>} |->
                            IF p = <<cmd.key, cmd.field>> THEN cmd.value ELSE lastHSet[p]]
                   ELSE lastHSet

(* a handler that has written the key "a" before the conversion fails *)
Handle_WriteFirst(value, c, how) ==
    /\ request' = value
    /\ via' = how
    /\ command' = c
    /\ IF c.r = "Ok"
       THEN \E o \in OrdersFor(c.cmd, hmap) : Executed(c.cmd, Execute(c.cmd, map, hmap, o))
       ELSE /\ response' = [r |-> c.r, frame |-> NoFrame, err |-> c.err]
            /\ map' = BackendSet(map, <<97>>, Null)
            /\ UNCHANGED <<hmap, lastSet, lastHSet>>

(* try_from returned c for the array value: on Ok the command is executed, *)
(* on Err or a panic nothing is                                             *)
Handle(value, c, how) ==
    /\ request' = value
    /\ via' = how
    /\ command' = c
    /\ IF c.r = "Ok"
       THEN \E o \in OrdersFor(c.cmd, hmap) : Executed(c.cmd, Execute(c.cmd, map, hmap, o))
       ELSE /\ response' = [r |-> c.r, frame |-> NoFrame, err |-> c.err]
            /\ UNCHANGED <<map, hmap, lastSet, lastHSet>>

(* request_handler: Command::try_from(frame)?, then cmd.execute(&backend) *)
RequestHandler ==
    /\ \E value \in Requests : Handle(value, CommandTryFrom(value), "dispatch")
    /\ UNCHANGED <<codecVars, connVars, sharedVars>>

(* CommandHMGet::try_from(array), then execute, as test_hmget_execute does *)
HMGetDirect ==
    /\ \E value \in HMGetRequests : Handle(value, CommandHMGetTryFrom(value), "direct")
    /\ UNCHANGED <<codecVars, connVars, sharedVars>>

Next == RequestHandler \/ HMGetDirect

Spec == Init /\ [][Next]_vars

----------------------------------------------------------------------------
(* Conversion of arbitrary request arrays (impl TryFrom<RespArray>), by    *)
(* the dispatcher and by each command's own try_from, as the unit tests of *)
(* src/cmd call them.  A conversion that succeeds is executed.  The        *)
(* conversions are pure: each behaviour converts one array.                *)

MaxArgs == 3

(* "a", a byte string that is not UTF-8, and a frame that is no BulkString *)
ArgFrames == {BulkString(<<97>>), BulkString(<<255>>), Integer(7)}

CommandTypes == {"Get", "Set", "HGet", "HSet", "HGetAll", "HMGet", "Echo"}

NameOf(t) ==
    CASE t = "Get" -> NAME_GET
      [] t = "Set" -> NAME_SET
      [] t = "HGet" -> NAME_HGET
      [] t = "HSet" -> NAME_HSET
      [] t = "HGetAll" -> NAME_HGETALL
      [] t = "HMGet" -> NAME_HMGET
      [] t = "Echo" -> NAME_ECHO

(* the n_args each fixed-arity try_from passes to validate_command *)
ArityOf(t) ==
    CASE t \in {"Get", "HGetAll", "Echo"} -> 1
      [] t \in {"Set", "HGet"} -> 2
      [] t = "HSet" -> 3

(* "HGET" *)
NAME_HGET_UPPER == <<72, 71, 69, 84>>

(* arrays that start with a command name, in lower case or, for hget, in   *)
(* upper case; arrays that start with another frame; the empty array       *)
ConvRequests ==
    {Req(n, args) :
        n \in {NameOf(t) : t \in CommandTypes} \cup {NAME_HGET_UPPER},
        args \in SeqsUpTo(ArgFrames, MaxArgs)}
    \cup {<<>>, <<Integer(7)>>, <<Integer(7), BulkString(<<97>>)>>,
          <<SimpleString(NAME_GET), BulkString(<<97>>)>>}

(* T::try_from(value) for the command type t *)
TryFromAs(t, value) ==
    CASE t = "Get" -> CommandGetTryFrom(value)
      [] t = "Set" -> CommandSetTryFrom(value)
      [] t = "HGet" -> CommandHGetTryFrom(value)
      [] t = "HSet" -> CommandHSetTryFrom(value)
      [] t = "HGetAll" -> CommandHGetAllTryFrom(value)
      [] t = "HMGet" -> CommandHMGetTryFrom(value)
      [] t = "Echo" -> CommandEchoTryFrom(value)

(* the store before the conversion: new, or after  set a 1 *)
ConvStores == {EmptyMap, MapInsert(EmptyMap, <<97>>, BulkString(<<49>>))}

(* an array has arrived and is about to be converted, by the dispatcher or *)
(* by the try_from of one command type                                      *)
ConvertInit ==
    /\ CodecIdle
    /\ ConnIdle
    /\ SharedIdle
    /\ map \in ConvStores
    /\ lastSet = map
    /\ hmap = EmptyMap
    /\ lastHSet = EmptyMap
    /\ request \in ConvRequests
    /\ via \in {"dispatch"} \cup CommandTypes
    /\ command = NoTryFrom
    /\ response = NoResponse

(* request_handler on any array: Command::try_from(frame)?, then execute *)
ConvertDispatch ==
    /\ command.r = "None"
    /\ via = "dispatch"
    /\ Handle(request, CommandTryFrom(request), via)
    /\ UNCHANGED <<codecVars, connVars, sharedVars>>

(* CommandGet::try_from(array) .. CommandEcho::try_from(array), then       *)
(* execute                                                                  *)
ConvertTyped ==
    /\ command.r = "None"
    /\ via \in CommandTypes
    /\ Handle(request, TryFromAs(via, request), via)
    /\ UNCHANGED <<codecVars, connVars, sharedVars>>

ConvertNext == ConvertDispatch \/ ConvertTyped

SpecConvert == ConvertInit /\ [][ConvertNext]_vars

----------------------------------------------------------------------------
(* One connection (src/network.rs).  The client sends the encodings of     *)
(* reqs back to back; TCP delivers them to the server in chunks of any     *)
(* size.  The handler is suspended only in the socket read of              *)
(* framed.next(): SocketRead is that read, Poll is everything the handler  *)
(* does with a readable buffer until it next waits for the socket.         *)

MaxPipeline == 2

(* set a 1, get a, get b, and get without a key *)
ConnRequests ==
    { Req(NAME_SET, <<BulkString(<<97>>), BulkString(<<49>>)>>),
      Req(NAME_GET, <<BulkString(<<97>>)>>),
      Req(NAME_GET, <<BulkString(<<98>>)>>),
      Req(NAME_GET, <<>>) }

RECURSIVE WireOf(_)
WireOf(rs) ==
    IF rs = <<>> THEN <<>> ELSE Encode(Array(rs[1])).bytes \o WireOf(Tail(rs))

ConnInit ==
    /\ StoreInit
    /\ CodecIdle
    /\ SharedIdle
    /\ reqs \in SeqsUpTo(ConnRequests, MaxPipeline) \ {<<>>}
    /\ wire = WireOf(reqs)
    /\ peerClosed = FALSE
    /\ rbuf = <<>>
    /\ eof = FALSE
    /\ pc = "reading"
    /\ conn = "open"
    /\ seen = <<>>
    /\ served = <<>>
    /\ out = <<>>

(* RespFrameCodec::decode: Ok(None) on an empty buffer, else               *)
(* RespArray::decode(src)?                                                  *)
CodecDecode(src) ==
    IF src = <<>> THEN [r |-> "None", frame |-> NoFrame, err |-> "", buf |-> src]
    ELSE DecodeArray(src)

(* the client closes its end; what it had sent stays readable *)
PeerClose ==
    /\ conn = "open"
    /\ ~peerClosed
    /\ peerClosed' = TRUE
    /\ UNCHANGED <<reqs, wire, rbuf, eof, pc, conn, seen, served, out>>
    /\ UNCHANGED <<codecVars, storeVars, cmdVars, sharedVars>>

(* poll_read_buf returns: n > 0 bytes, or 0 bytes at end-of-stream *)
SocketRead ==
    /\ conn = "open"
    /\ pc = "reading"
    /\ \/ /\ \E n \in 1..Len(wire) :
                /\ rbuf' = rbuf \o TakeN(wire, n)
                /\ wire' = DropN(wire, n)
          /\ eof' = FALSE
          /\ pc' = "readable"
          /\ conn' = conn
       \/ /\ wire = <<>>
          /\ peerClosed
          /\ UNCHANGED <<rbuf, wire>>
          /\ eof' = TRUE
          /\ pc' = IF eof THEN "reading" ELSE "readable"
          /\ conn' = IF eof THEN "closed" ELSE conn
    /\ UNCHANGED <<reqs, peerClosed, seen, served, out>>
    /\ UNCHANGED <<codecVars, storeVars, cmdVars, sharedVars>>

(* a send that puts the response in front of those already written *)
Send_Prepend(f) ==
    IF Encode(f).ok
    THEN out' = <<f>> \o out /\ conn' = conn
    ELSE out' = out /\ conn' = "panic"

(* framed.send(response): RespFrameCodec::encode, then the write *)
Send(f) ==
    IF Encode(f).ok
    THEN out' = Append(out, f) /\ conn' = conn
    ELSE out' = out /\ conn' = "panic"

(* request_handler(request).await? and framed.send(..) for the decoded     *)
(* array: a conversion error ends stream_handler with Err                   *)
Serve(c) ==
    IF c.r = "Ok"
    THEN \E o \in OrdersFor(c.cmd, hmap) :
            /\ map' = Execute(c.cmd, map, hmap, o).map
            /\ hmap' = Execute(c.cmd, map, hmap, o).hmap
            /\ Send(Execute(c.cmd, map, hmap, o).frame)
    ELSE /\ conn' = IF c.r = "Err" THEN "error" ELSE "panic"
         /\ UNCHANGED <<map, hmap, out>>

(* the codec returned d to Framed's poll_next (decode, or decode_eof at    *)
(* end-of-stream, which adds nothing since decode returns None only on an  *)
(* empty buffer)                                                            *)
Polled(d) ==
    /\ rbuf' = d.buf
    /\ served' = IF d.r = "Ok" THEN Append(served, d.frame.v) ELSE served
    /\ CASE d.r = "Ok" -> Serve(CommandTryFrom(d.frame.v)) /\ pc' = pc
         [] d.r = "None" ->
                /\ pc' = "reading"
                /\ conn' = IF eof THEN "closed" ELSE conn
                /\ UNCHANGED <<map, hmap, out>>
         [] d.r = "Err" ->
                /\ pc' = pc
                /\ conn' = "error"
                /\ UNCHANGED <<map, hmap, out>>
         [] d.r = "Panic" ->
                /\ pc' = pc
                /\ conn' = "panic"
                /\ UNCHANGED <<map, hmap, out>>

(* stream_handler's loop body on a readable buffer *)
Poll ==
    /\ conn = "open"
    /\ pc = "readable"
    /\ seen' = rbuf
    /\ Polled(CodecDecode(rbuf))
    /\ UNCHANGED <<reqs, wire, peerClosed, eof>>
    /\ UNCHANGED <<codecVars, cmdVars, sharedVars>>

ConnNext == PeerClose \/ SocketRead \/ Poll

SpecConn == ConnInit /\ [][ConnNext]_vars

----------------------------------------------------------------------------
(* One connection with any peer: the peer's own encoder puts any bytes in  *)
(* a BulkString, and after its requests the peer may send bytes that are   *)
(* no request array.  The handler is the same: PeerClose, SocketRead and   *)
(* Poll.                                                                    *)

(* set a <0xFF>, set a 1, get a *)
PeerRequests ==
    { Req(NAME_SET, <<BulkString(<<97>>), BulkString(<<255>>)>>),
      Req(NAME_SET, <<BulkString(<<97>>), BulkString(<<49>>)>>),
      Req(NAME_GET, <<BulkString(<<97>>)>>) }

(* nothing; +OK CRLF; *x CRLF; *1 CRLF x1 CRLF *)
PeerJunk ==
    { <<>>, <<43, 79, 75, 13, 10>>, <<42, 120, 13, 10>>,
      <<42, 49, 13, 10, 120, 49, 13, 10>> }

(* the bytes of the BulkStrings fs as a peer writes them *)
RECURSIVE PeerBulks(_)
PeerBulks(fs) ==
    IF fs = <<>> THEN <<>>
    ELSE <<36>> \o FmtNat(Len(fs[1].v)) \o CRLF \o fs[1].v \o CRLF \o PeerBulks(Tail(fs))

RECURSIVE PeerWireOf(_)
PeerWireOf(rs) ==
    IF rs = <<>> THEN <<>>
    ELSE <<42>> \o FmtNat(Len(rs[1])) \o CRLF \o PeerBulks(rs[1]) \o PeerWireOf(Tail(rs))

PeerInit ==
    /\ StoreInit
    /\ CodecIdle
    /\ SharedIdle
    /\ reqs \in SeqsUpTo(PeerRequests, MaxPipeline)
    /\ \E junk \in PeerJunk :
          /\ reqs # <<>> \/ junk # <<>>
          /\ wire = PeerWireOf(reqs) \o junk
    /\ peerClosed = FALSE
    /\ rbuf = <<>>
    /\ eof = FALSE
    /\ pc = "reading"
    /\ conn = "open"
    /\ seen = <<>>
    /\ served = <<>>
    /\ out = <<>>

SpecPeer == PeerInit /\ [][ConnNext]_vars

----------------------------------------------------------------------------
(* Several connections (src/main.rs).  main gives every accepted stream    *)
(* its own stream_handler task with a clone of the one Backend, an Arc of  *)
(* the same BackendInner, and the tasks run in parallel.  A handler serves *)
(* one request at a time: Begin is the request decoded and handed to       *)
(* request_handler, Exec the command executed on the shared store, Respond *)
(* the response encoded and sent.  Backend::get and set are each one       *)
(* DashMap operation under the lock of the key's shard; Backend::hset is   *)
(* two, entry(key).or_default() and the insert into the inner map, and     *)
(* holds the write lock of the key's shard from the first to the second.   *)

NConns == 2

MaxOps == 3

Conns == 1..NConns

(* the value the n-th request begun carries: the digit n *)
ValueNo(n) == BulkString(<<48 + n>>)

SharedRequests(n) ==
    {Req(NAME_SET, <<BulkString(k), ValueNo(n)>>) : k \in Keys}
    \cup {Req(NAME_GET, <<BulkString(k)>>) : k \in Keys}
    \cup {Req(NAME_HSET, <<BulkString(<<97>>), BulkString(f), ValueNo(n)>>) :
            f \in Fields}

(* a handler that has not had a request yet, and one between requests *)
NewClient == [pc |-> "new", req |-> <<>>, res |-> NoFrame, floor |-> 0]

IdleClient == [pc |-> "idle", req |-> <<>>, res |-> NoFrame, floor |-> 0]

SharedInit ==
    /\ StoreInit
    /\ CodecIdle
    /\ ConnIdle
    /\ clients = [c \in Conns |-> NewClient]
    /\ hist = [k \in Keys |-> <<>>]
    /\ doneVer = [k \in Keys |-> 0]
    /\ issued = 0

KeyOf(req) == req[2].v

CmdOf(req) == CommandTryFrom(req).cmd

(* a handler other than c holds the RefMut of key k *)
Locked(k, c) ==
    \E d \in Conns \ {c} : clients[d].pc = "entry" /\ KeyOf(clients[d].req) = k

(* the position in h of the set that wrote value v *)
PosIn(h, v) == CHOOSE i \in 1..Len(h) : h[i].v = v

(* stream_handler of connection c decodes a request; the connections are  *)
(* numbered in the order in which their first requests arrive              *)
BeginWith(c, requests) ==
    /\ \/ clients[c].pc = "idle"
       \/ clients[c].pc = "new" /\ \A d \in 1..(c - 1) : clients[d].pc # "new"
    /\ issued < MaxOps
    /\ issued' = issued + 1
    /\ \E req \in requests :
          clients' = [clients EXCEPT ![c] =
                        [pc |-> "started", req |-> req, res |-> NoFrame,
                         floor |-> IF req[1].v = NAME_GET
                                   THEN doneVer[KeyOf(req)] ELSE 0]]
    /\ UNCHANGED <<hist, doneVer>>
    /\ UNCHANGED <<codecVars, storeVars, cmdVars, connVars>>

Begin(c) == BeginWith(c, SharedRequests(issued + 1))

(* request_handler: Command::try_from, then execute, for a command that is *)
(* one DashMap operation                                                    *)
Exec(c) ==
    /\ clients[c].pc = "started"
    /\ CommandTryFrom(clients[c].req).r = "Ok"
    /\ CmdOf(clients[c].req).c # "HSet"
    /\ CmdOf(clients[c].req).c \in {"HGet", "HGetAll", "HMGet"}
          => ~Locked(KeyOf(clients[c].req), c)
    /\ \E o \in OrdersFor(CmdOf(clients[c].req), hmap) :
          /\ map' = Execute(CmdOf(clients[c].req), map, hmap, o).map
          /\ hmap' = Execute(CmdOf(clients[c].req), map, hmap, o).hmap
          /\ clients' = [clients EXCEPT
                ![c].pc = "executed",
                ![c].res = Execute(CmdOf(clients[c].req), map, hmap, o).frame]
    /\ hist' = IF CmdOf(clients[c].req).c = "Set"
               THEN [hist EXCEPT ![KeyOf(clients[c].req)] =
                        Append(@, [v |-> CmdOf(clients[c].req).value, by |-> c])]
               ELSE hist
    /\ UNCHANGED <<doneVer, issued>>
    /\ UNCHANGED <<codecVars, cmdVars, connVars>>

(* Backend::hset, first statement: entry(key).or_default() *)
HSetEntry(c) ==
    /\ clients[c].pc = "started"
    /\ CommandTryFrom(clients[c].req).r = "Ok"
    /\ CmdOf(clients[c].req).c = "HSet"
    /\ ~Locked(KeyOf(clients[c].req), c)
    /\ hmap' = EntryOrDefault(hmap, CmdOf(clients[c].req).key)
    /\ clients' = [clients EXCEPT ![c].pc = "entry"]
    /\ UNCHANGED <<map, hist, doneVer, issued>>
    /\ UNCHANGED <<codecVars, cmdVars, connVars>>

(* Backend::hset, second statement: hmap.insert(field, value); the RefMut  *)
(* is dropped on return and CommandHSet::execute answers RESP_OK            *)
HSetInsert(c) ==
    /\ clients[c].pc = "entry"
    /\ hmap' = InnerInsert(hmap, CmdOf(clients[c].req).key,
                           CmdOf(clients[c].req).field, CmdOf(clients[c].req).value)
    /\ lastHSet' = MapInsert(lastHSet,
                             <<CmdOf(clients[c].req).key, CmdOf(clients[c].req).field>>,
                             CmdOf(clients[c].req).value)
    /\ clients' = [clients EXCEPT ![c].pc = "executed", ![c].res = RESP_OK]
    /\ UNCHANGED <<map, hist, doneVer, issued>>
    /\ UNCHANGED <<request, via, command, response, lastSet>>
    /\ UNCHANGED <<codecVars, connVars>>

(* framed.send(response): the response is encoded and written, and the    *)
(* handler goes back to reading                                             *)
Respond(c) ==
    /\ clients[c].pc = "executed"
    /\ clients' = [clients EXCEPT ![c] =
                     IF Encode(clients[c].res).ok THEN IdleClient
                     ELSE [clients[c] EXCEPT !.pc = "panic"]]
    /\ doneVer' = IF CmdOf(clients[c].req).c = "Set"
                  THEN [doneVer EXCEPT ![KeyOf(clients[c].req)] =
                          IF PosIn(hist[KeyOf(clients[c].req)],
                                   CmdOf(clients[c].req).value) > @
                          THEN PosIn(hist[KeyOf(clients[c].req)],
                                     CmdOf(clients[c].req).value)
                          ELSE @]
                  ELSE doneVer
    /\ UNCHANGED <<hist, issued>>
    /\ UNCHANGED <<codecVars, storeVars, cmdVars, connVars>>

SharedNext ==
    \E c \in Conns : Begin(c) \/ Exec(c) \/ HSetEntry(c) \/ HSetInsert(c) \/ Respond(c)

SpecShared == SharedInit /\ [][SharedNext]_vars

----------------------------------------------------------------------------
(* The server with connections that fail (src/main.rs).  Each              *)
(* stream_handler runs in its own tokio::spawn task; main matches the      *)
(* task's result only to log it and is back at listener.accept() as soon   *)
(* as the task is spawned.                                                  *)

(* a handler whose stream_handler has returned or panicked *)
ClosedClient == [pc |-> "closed", req |-> <<>>, res |-> NoFrame, floor |-> 0]

(* a main that returns a handler's error with `?`: the process ends and    *)
(* every connection with it                                                 *)
Fail_Exit(c) ==
    /\ \/ clients[c].pc = "idle"
       \/ clients[c].pc = "new" /\ \A d \in 1..(c - 1) : clients[d].pc # "new"
    /\ clients' = [d \in Conns |-> ClosedClient]
    /\ UNCHANGED <<hist, doneVer, issued>>
    /\ UNCHANGED <<codecVars, storeVars, cmdVars, connVars>>

(* stream_handler of connection c returns Err while waiting for its next   *)
(* request (framed.next() yields an I/O error, the peer closed in the      *)
(* middle of a frame, the bytes do not decode, request_handler's           *)
(* conversion fails) or its task panics: the task ends, main logs it       *)
Fail(c) ==
    /\ \/ clients[c].pc = "idle"
       \/ clients[c].pc = "new" /\ \A d \in 1..(c - 1) : clients[d].pc # "new"
    /\ clients' = [clients EXCEPT ![c] = ClosedClient]
    /\ UNCHANGED <<hist, doneVer, issued>>
    /\ UNCHANGED <<codecVars, storeVars, cmdVars, connVars>>

(* set a n, get a *)
ServerRequests(n) ==
    { Req(NAME_SET, <<BulkString(<<97>>), ValueNo(n)>>),
      Req(NAME_GET, <<BulkString(<<97>>)>>) }

ServerBegin(c) == BeginWith(c, ServerRequests(issued + 1))

(* a step of a handler that has a request: the runtime runs every task     *)
(* that is ready                                                            *)
Progress == \E c \in Conns : Exec(c) \/ Respond(c)

ServerNext == \E c \in Conns : ServerBegin(c) \/ Exec(c) \/ Respond(c) \/ Fail(c)

SpecServer == SharedInit /\ [][ServerNext]_vars /\ WF_vars(Progress)

----------------------------------------------------------------------------
(* Reads of a whole hash beside writes (src/cmd/hmap.rs, execute of        *)
(* CommandHGetAll and CommandHMGet).  The read is several DashMap          *)
(* operations: backend.hmap.get(key) returns a Ref, which holds the read   *)
(* lock of the key's shard of the outer table until it is dropped at the   *)
(* end of execute; then the inner map is read one field at a time.         *)
(* Backend::hset takes the write lock of the same shard in entry(), so it  *)
(* waits for every Ref of the key.  hist keeps, per key, the contents of   *)
(* the hkv table after every insert.                                        *)

(* hset a f n, hset a g n, hgetall a, hmget a f g, hmget a g f *)
SnapRequests(n) ==
    {Req(NAME_HSET, <<BulkString(<<97>>), BulkString(f), ValueNo(n)>>) : f \in Fields}
    \cup {Req(NAME_HGETALL, <<BulkString(<<97>>)>>),
          Req(NAME_HMGET, <<BulkString(<<97>>), BulkString(<<102>>), BulkString(<<103>>)>>),
          Req(NAME_HMGET, <<BulkString(<<97>>), BulkString(<<103>>), BulkString(<<102>>)>>)}

(* the store before any request, and after hset a f 0 and hset a g 0 *)
SnapStores ==
    {EmptyMap,
     InnerInsert(InnerInsert(EntryOrDefault(EmptyMap, <<97>>),
                             <<97>>, <<102>>, ValueNo(0)),
                 <<97>>, <<103>>, ValueNo(0))}

SnapInit ==
    /\ CodecIdle
    /\ ConnIdle
    /\ map = EmptyMap
    /\ hmap \in SnapStores
    /\ request = <<>>
    /\ via = "none"
    /\ command = NoTryFrom
    /\ response = NoResponse
    /\ lastSet = EmptyMap
    /\ lastHSet = EmptyMap
    /\ clients = [c \in Conns |-> NewClient]
    /\ hist = [k \in Keys |-> <<hmap>>]
    /\ doneVer = [k \in Keys |-> 0]
    /\ issued = 0

(* the command of a request: CommandHMGet::try_from for an hmget, which    *)
(* Command::try_from has no arm for                                         *)
SnapCmdOf(req) ==
    IF req[1].v = NAME_HMGET THEN CommandHMGetTryFrom(req).cmd
    ELSE CommandTryFrom(req).cmd

IsRead(req) == SnapCmdOf(req).c \in {"HGetAll", "HMGet"}

(* a reader that takes the Ref anew for every field, as Backend::hget does *)
ReadHeld_PerField(k, c) == FALSE

(* a handler other than c holds a Ref of key k *)
ReadHeld(k, c) ==
    \E d \in Conns \ {c} : clients[d].pc = "reading" /\ KeyOf(clients[d].req) = k

SnapBegin(c) == BeginWith(c, SnapRequests(issued + 1))

(* Backend::hset, first statement, which waits for the Refs of the key *)
SnapEntry(c) ==
    /\ clients[c].pc = "started"
    /\ ~ReadHeld(KeyOf(clients[c].req), c)
    /\ HSetEntry(c)

(* Backend::hset, second statement, with the new contents recorded *)
SnapInsert(c) ==
    /\ clients[c].pc = "entry"
    /\ hmap' = InnerInsert(hmap, CmdOf(clients[c].req).key,
                           CmdOf(clients[c].req).field, CmdOf(clients[c].req).value)
    /\ lastHSet' = MapInsert(lastHSet,
                             <<CmdOf(clients[c].req).key, CmdOf(clients[c].req).field>>,
                             CmdOf(clients[c].req).value)
    /\ hist' = [hist EXCEPT ![KeyOf(clients[c].req)] = Append(@, hmap')]
    /\ clients' = [clients EXCEPT ![c].pc = "executed", ![c].res = RESP_OK]
    /\ UNCHANGED <<map, doneVer, issued>>
    /\ UNCHANGED <<request, via, command, response, lastSet>>
    /\ UNCHANGED <<codecVars, connVars>>

(* execute of CommandHGetAll and CommandHMGet, first statement:            *)
(* backend.hmap.get(&self.key); None is answered with Null at once         *)
ReadGet(c) ==
    /\ clients[c].pc = "started"
    /\ IsRead(clients[c].req)
    /\ ~Locked(KeyOf(clients[c].req), c)
    /\ clients' = [clients EXCEPT ![c] =
          IF KeyOf(clients[c].req) \in DOMAIN hmap
          THEN [pc |-> "reading", req |-> clients[c].req, res |-> Array(<<>>),
                floor |-> Len(hist[KeyOf(clients[c].req)])]
          ELSE [pc |-> "executed", req |-> clients[c].req, res |-> Null,
                floor |-> Len(hist[KeyOf(clients[c].req)])]]
    /\ UNCHANGED <<hist, doneVer, issued>>
    /\ UNCHANGED <<codecVars, storeVars, cmdVars, connVars>>

(* the fields an hgetall has pushed to data *)
Visited(data) == {data[2 * i - 1].v : i \in 1..(Len(data) \div 2)}

(* data as a map from field to value *)
DataMap(data) ==
    [f \in Visited(data) |->
        data[2 * (CHOOSE i \in 1..(Len(data) \div 2) : data[2 * i - 1].v = f)]]

(* one turn of the loop: hmap.iter() yields a pair not yet visited, in any *)
(* order; hmap.get(&v) looks up the next of self.fields                     *)
ReadField(c) ==
    /\ clients[c].pc = "reading"
    /\ \/ /\ SnapCmdOf(clients[c].req).c = "HGetAll"
          /\ \E f \in DOMAIN hmap[KeyOf(clients[c].req)] \ Visited(clients[c].res.v) :
                clients' = [clients EXCEPT ![c].res =
                    Array(@.v \o <<BulkString(f), hmap[KeyOf(clients[c].req)][f]>>)]
       \/ /\ SnapCmdOf(clients[c].req).c = "HMGet"
          /\ Len(clients[c].res.v) < Len(SnapCmdOf(clients[c].req).fields)
          /\ clients' = [clients EXCEPT ![c].res =
                Array(@.v \o
                  <<OrNull(BackendHGet(hmap, KeyOf(clients[c].req),
                       SnapCmdOf(clients[c].req).fields[Len(clients[c].res.v) + 1]))>>)]
    /\ UNCHANGED <<hist, doneVer, issued>>
    /\ UNCHANGED <<codecVars, storeVars, cmdVars, connVars>>

(* the loop ends; data is sorted if self.sort; the Ref is dropped on       *)
(* return                                                                   *)
ReadDone(c) ==
    /\ clients[c].pc = "reading"
    /\ \/ /\ SnapCmdOf(clients[c].req).c = "HGetAll"
          /\ DOMAIN hmap[KeyOf(clients[c].req)] \subseteq Visited(clients[c].res.v)
          /\ clients' = [clients EXCEPT
                ![c].pc = "executed",
                ![c].res = IF SnapCmdOf(clients[c].req).sort
                           THEN Array(FlatPairs(DataMap(@.v), SortedOrder(DataMap(@.v))))
                           ELSE @]
       \/ /\ SnapCmdOf(clients[c].req).c = "HMGet"
          /\ Len(clients[c].res.v) = Len(SnapCmdOf(clients[c].req).fields)
          /\ clients' = [clients EXCEPT ![c].pc = "executed"]
    /\ UNCHANGED <<hist, doneVer, issued>>
    /\ UNCHANGED <<codecVars, storeVars, cmdVars, connVars>>

SnapNext ==
    \E c \in Conns :
        \/ SnapBegin(c) \/ SnapEntry(c) \/ SnapInsert(c)
        \/ ReadGet(c) \/ ReadField(c) \/ ReadDone(c) \/ Respond(c)

SpecSnapshot == SnapInit /\ [][SnapNext]_vars

----------------------------------------------------------------------------
(* Claims about the connection handler, over SpecConn.                     *)

(* b is a non-empty proper prefix of the encoding of one request array *)
ProperPrefixOfRequest(b) ==
    /\ b # <<>>
    /\ \E r \in ConnRequests :
          /\ Len(b) < Len(Encode(Array(r)).bytes)
          /\ b = TakeN(Encode(Array(r)).bytes, Len(b))

(* the request was converted to a command *)
Converts(value) == CommandTryFrom(value).r = "Ok"

(* C12: when the conversion of a decoded request array to a command fails, *)
(* the handler writes a SimpleError as the response to that request and    *)
(* does not end the connection.                                             *)
C12_ConversionErrorAnswered ==
    \A i \in 1..Len(served) :
        CommandTryFrom(served[i]).r = "Err"
            => /\ conn \notin {"error", "panic"}
               /\ Len(out) >= i
               /\ out[i].t = "Error"

(* the responses a handler owes to the request arrays rs, served one after *)
(* the other from the store m, hm, up to the first that does not convert   *)
RECURSIVE Replies(_, _, _)
RepliesFrom(rs, d) == <<d.frame>> \o Replies(Tail(rs), d.map, d.hmap)

Replies(rs, m, hm) ==
    IF rs = <<>> \/ ~Converts(rs[1]) THEN <<>>
    ELSE RepliesFrom(rs, Execute(CommandTryFrom(rs[1]).cmd, m, hm,
                                 CHOOSE o \in OrdersFor(CommandTryFrom(rs[1]).cmd, hm) : TRUE))

(* C13: the requests are decoded in the order the client sent them, and    *)
(* the i-th response frame written is the response to the i-th request     *)
(* decoded.                                                                 *)
C13_ResponsesInOrder ==
    /\ served = TakeN(reqs, Len(served))
    /\ Len(out) <= Len(served)
    /\ out = TakeN(Replies(served, EmptyMap, EmptyMap), Len(out))
    /\ (conn = "open" /\ \A i \in 1..Len(served) : Converts(served[i]))
          => Len(out) = Len(served)

(* set a 1 then get a, both answered: +OK, then "1" *)
C13_Witness ==
    /\ conn = "open"
    /\ Len(served) = 2
    /\ out = <<RESP_OK, BulkString(<<49>>)>>

(* C3: when the codec was last called on a read buffer that holds only a   *)
(* proper prefix of a request array, the handler keeps the connection      *)
(* open with the buffer untouched and goes back to waiting for the socket, *)
(* so that the rest of the request can still arrive and be answered.       *)
C3_PartialRequestKeepsOpen ==
    (conn # "none" /\ ProperPrefixOfRequest(seen)) =>
        /\ conn = "open"
        /\ rbuf = seen
        /\ pc = "reading"

----------------------------------------------------------------------------
(* Claims about handlers that share the store, over SpecShared.            *)

(* handler c has executed a get of key k and not yet sent the response *)
GotKey(c, k) ==
    /\ clients[c].pc = "executed"
    /\ clients[c].req[1].v = NAME_GET
    /\ KeyOf(clients[c].req) = k

(* handler c has executed an hset of field f of key "a" and not yet sent   *)
(* the response                                                             *)
DidHSet(c, f) ==
    /\ clients[c].pc = "executed"
    /\ clients[c].req[1].v = NAME_HSET
    /\ KeyOf(clients[c].req) = <<97>>
    /\ clients[c].req[3].v = f

(* C15: hset calls that run in parallel on the same outer key lose no      *)
(* update: every field ever set under a key is in the inner map of that    *)
(* key with the value of the last hset of it, so no call has replaced an   *)
(* inner map another call created or wrote to.                              *)
C15_NoLostHSet ==
    \A p \in DOMAIN lastHSet :
        /\ p[1] \in DOMAIN hmap
        /\ p[2] \in DOMAIN hmap[p[1]]
        /\ hmap[p[1]][p[2]] = lastHSet[p]

(* two handlers have each run hset on key "a", which had no inner map,     *)
(* with fields f and g, neither has answered yet, and both fields are set  *)
C15_Witness ==
    /\ DidHSet(1, <<102>>) /\ DidHSet(2, <<103>>)
    /\ DOMAIN lastHSet = {<<(<<97>>), (<<102>>)>>, <<(<<97>>), (<<103>>)>>}
    /\ DOMAIN hmap[<<97>>] = {<<102>>, <<103>>}
    /\ hmap[<<97>>][<<102>>] = clients[1].req[4]
    /\ hmap[<<97>>][<<103>>] = clients[2].req[4]

(* C16: once the response to a SET k v has been sent, a GET k that starts  *)
(* afterwards on any connection returns v or the value of a set of k that  *)
(* took effect after it, never an older value or Null.                     *)
C16_GetSeesCompletedSet ==
    \A c \in DOMAIN clients : \A k \in DOMAIN hist :
        (GotKey(c, k) /\ clients[c].floor > 0)
            => \E i \in clients[c].floor..Len(hist[k]) : clients[c].res = hist[k][i].v

(* a get that started after another handler's set of the key had been     *)
(* answered returns the value of a later set                                *)
C16_Witness ==
    \E c \in DOMAIN clients : \E k \in DOMAIN hist :
        /\ GotKey(c, k)
        /\ clients[c].floor = 1
        /\ Len(hist[k]) = 2
        /\ hist[k][1].by # c
        /\ clients[c].res = hist[k][2].v

(* every set of key k so far came from handler c *)
OwnKey(c, k) == \A i \in 1..Len(hist[k]) : hist[k][i].by = c

(* C17: when the handlers write disjoint keys, each GET returns the value  *)
(* of the handler's own latest SET of the key; every key holds the last    *)
(* value written to it; and no handler aborts.                              *)
C17_DisjointKeys ==
    /\ \A c \in DOMAIN clients : clients[c].pc # "panic"
    /\ \A k \in DOMAIN hist :
          hist[k] # <<>> => (k \in DOMAIN map /\ map[k] = Last(hist[k]).v)
    /\ \A c \in DOMAIN clients : \A k \in DOMAIN hist :
          (GotKey(c, k) /\ OwnKey(c, k))
              => clients[c].res = IF hist[k] = <<>> THEN Null ELSE Last(hist[k]).v

(* handler 1 reads back its own set of "a" after handler 2 has set "b" *)
C17_Witness ==
    /\ GotKey(1, <<97>>) /\ OwnKey(1, <<97>>) /\ hist[<<97>>] # <<>>
    /\ OwnKey(2, <<98>>) /\ hist[<<98>>] # <<>>
    /\ clients[1].res = Last(hist[<<97>>]).v
    /\ map[<<98>>] = Last(hist[<<98>>]).v

----------------------------------------------------------------------------
(* Claims about the command pipeline, checked under Spec                    *)

Dispatched == via = "dispatch"

Ran(c) == command.r = "Ok" /\ command.cmd.c = c

HasHash(k) == \E p \in DOMAIN lastHSet : p[1] = k

(* the request with its command name in lower case *)
LowerCased(value) == <<BulkString(ToAsciiLowercase(value[1].v))>> \o Tail(value)

(* C5: request arrays that differ only in the letter case of the command   *)
(* name are converted to the same command and get the same response from   *)
(* the same store.                                                          *)
C5_CaseInsensitiveDispatch ==
    (Dispatched /\ IsBulk(request, 1) /\ request[1].v \in GetSpellings)
        => /\ command = CommandTryFrom(LowerCased(request))
           /\ response.frame = OrNull(BackendGet(map, request[2].v))

(* C6: SET answers +OK, and GET k returns the value of the most recent     *)
(* SET k v.                                                                 *)
C6_GetReturnsLastSet ==
    /\ (Dispatched /\ Ran("Set")) => response.frame = RESP_OK
    /\ (Dispatched /\ Ran("Get") /\ command.cmd.key \in DOMAIN lastSet)
          => response.frame = lastSet[command.cmd.key]

C6_Witness ==
    /\ Dispatched /\ Ran("Get")
    /\ command.cmd.key \in DOMAIN lastSet
    /\ response.frame = Integer(7)

(* C7: HGET k f returns the value of the most recent HSET k f v, and Null  *)
(* for a field never set under k.                                           *)
C7_HGetReturnsLastHSet ==
    (Dispatched /\ Ran("HGet"))
        => response.frame =
              IF <<command.cmd.key, command.cmd.field>> \in DOMAIN lastHSet
              THEN lastHSet[<<command.cmd.key, command.cmd.field>>]
              ELSE Null

(* HGET k g answered Null while k holds another field *)
C7_Witness ==
    /\ Dispatched /\ Ran("HGet")
    /\ HasHash(command.cmd.key)
    /\ <<command.cmd.key, command.cmd.field>> \notin DOMAIN lastHSet
    /\ response.frame = Null

(* C8: for a key k that holds a hash, HMGET k f1..fn returns an Array of   *)
(* length n whose i-th element is the value stored for fi, or Null when fi *)
(* is not set, in request order.                                            *)
C8_HMGetAligned ==
    (Ran("HMGet") /\ HasHash(command.cmd.key))
        => /\ response.frame.t = "Array"
           /\ Len(response.frame.v) = Len(command.cmd.fields)
           /\ \A i \in 1..Len(command.cmd.fields) :
                 response.frame.v[i] =
                    IF <<command.cmd.key, command.cmd.fields[i]>> \in DOMAIN lastHSet
                    THEN lastHSet[<<command.cmd.key, command.cmd.fields[i]>>]
                    ELSE Null

(* two fields requested, the first a hit and the second a miss *)
C8_Witness ==
    /\ Ran("HMGet") /\ HasHash(command.cmd.key)
    /\ Len(command.cmd.fields) = 2
    /\ response.frame.t = "Array"
    /\ response.frame.v[1] \in HashValues
    /\ response.frame.v[2] = Null

(* C9: a request whose first element is hmget is converted by the          *)
(* dispatcher into the HMGET command and is not answered with the          *)
(* unknown-command error.                                                   *)
C9_HMGetDispatched ==
    (Dispatched /\ IsBulk(request, 1) /\ request[1].v = NAME_HMGET /\ Len(request) >= 3)
        => /\ Ran("HMGet")
           /\ response.frame # RESP_UNKNOWNN_COMMAND

(* C11: a request whose first element is a BulkString naming no supported *)
(* command, whatever follows it, is answered with the SimpleError          *)
(* "Unknown command" and the step leaves both tables of the store as they  *)
(* were.                                                                    *)
C11_UnknownCommand ==
    [][(via' = "dispatch" /\ IsBulk(request', 1) /\ request'[1].v = NAME_NOPE)
         => /\ response' = [r |-> "Ok", frame |-> RESP_UNKNOWNN_COMMAND, err |-> ""]
            /\ response'.frame = SimpleError(<<85, 110, 107, 110, 111, 119, 110, 32,
                                                99, 111, 109, 109, 97, 110, 100>>)
            /\ map' = map
            /\ hmap' = hmap]_vars

(* NOPE with further elements answered on a store that holds a key in each *)
(* table                                                                    *)
C11_Witness ==
    /\ Dispatched /\ IsBulk(request, 1) /\ request[1].v = NAME_NOPE
    /\ Len(request) > 1
    /\ response.frame = RESP_UNKNOWNN_COMMAND
    /\ DOMAIN map # {} /\ DOMAIN hmap # {}

(* the request is the well-formed array  name key args..  with n_args     *)
(* further elements after the key                                          *)
Asks(name, n_args) ==
    /\ IsBulk(request, 1) /\ request[1].v = name
    /\ Len(request) = 2 + n_args
    /\ IsBulk(request, 2)

(* C10: a request on a missing key is answered with Null and never with an *)
(* error: GET k when k was never SET, and HGET k f, HGETALL k and          *)
(* HMGET k f.. when k holds no hash.                                        *)
C10_MissingKeyIsNull ==
    Dispatched =>
        /\ (Asks(NAME_GET, 0) /\ request[2].v \notin DOMAIN lastSet)
              => (response.r = "Ok" /\ response.frame = Null)
        /\ ((Asks(NAME_HGET, 1) \/ Asks(NAME_HGETALL, 0)
                \/ \E n \in 1..MaxFields : Asks(NAME_HMGET, n))
              /\ ~HasHash(request[2].v))
              => (response.r = "Ok" /\ response.frame = Null)

(* C14: no key is present in both the kv table and the hkv table.          *)
C14_OneTablePerKey == DOMAIN map \cap DOMAIN hmap = {}

(* the fields set under key k *)
FieldsOf(k) == {p[2] : p \in {q \in DOMAIN lastHSet : q[1] = k}}

(* C19: for a key k whose hash holds n fields, HGETALL k returns an Array  *)
(* of 2n elements in which every field of k appears exactly once, as a     *)
(* BulkString at an odd position, followed by its current value.           *)
C19_HGetAllPairs ==
    (Dispatched /\ Ran("HGetAll") /\ HasHash(command.cmd.key))
        => /\ response.frame.t = "Array"
           /\ Len(response.frame.v) = 2 * Cardinality(FieldsOf(command.cmd.key))
           /\ \A f \in FieldsOf(command.cmd.key) :
                 /\ Cardinality({i \in 1..Cardinality(FieldsOf(command.cmd.key)) :
                                   response.frame.v[2 * i - 1] = BulkString(f)}) = 1
                 /\ \A i \in 1..Cardinality(FieldsOf(command.cmd.key)) :
                        response.frame.v[2 * i - 1] = BulkString(f)
                            => response.frame.v[2 * i] = lastHSet[<<command.cmd.key, f>>]

(* two fields returned, not in field order: g first, then f *)
C19_Witness ==
    /\ Dispatched /\ Ran("HGetAll")
    /\ Cardinality(FieldsOf(command.cmd.key)) = 2
    /\ response.frame.t = "Array"
    /\ Len(response.frame.v) = 4
    /\ response.frame.v[1] = BulkString(<<103>>)
    /\ response.frame.v[3] = BulkString(<<102>>)

(* C20: ECHO msg returns a BulkString with the bytes of msg, for every     *)
(* BulkString msg.                                                          *)
C20_EchoSameBytes ==
    (Dispatched /\ Asks(NAME_ECHO, 0))
        => /\ response.r = "Ok"
           /\ response.frame = BulkString(request[2].v)

----------------------------------------------------------------------------
(* Conversion errors                                                        *)

Converted == command.r # "None"

(* the array reaches the try_from of command type t: through the           *)
(* dispatcher by the exact lower-case name (it has no arm for hmget), or   *)
(* called directly with the name in any letter case                        *)
RequestFor(t) ==
    /\ IsBulk(request, 1)
    /\ IF via = "dispatch" THEN t # "HMGet" /\ request[1].v = NameOf(t)
       ELSE via = t /\ ToAsciiLowercase(request[1].v) = NameOf(t)

(* where the array of a command of type t carries its key and fields; for  *)
(* echo, its message                                                        *)
KeyFieldPositions(t) ==
    CASE t \in {"Get", "Set", "HGetAll", "Echo"} -> {2}
      [] t \in {"HGet", "HSet"} -> {2, 3}
      [] t = "HMGet" -> 2..Len(request)

(* C21: converting an array whose first element is not a BulkString, or an *)
(* array with no elements, returns the InvalidCommand error; it does not   *)
(* abort.                                                                   *)
C21_NotACommandIsError ==
    (Converted /\ via \in {"dispatch", "HMGet"} /\ ~IsBulk(request, 1))
        => (command.r = "Err" /\ command.err = "InvalidCommand")

(* C22: a request for GET, HGETALL, ECHO with other than 1 argument, for   *)
(* SET, HGET with other than 2, for HSET with other than 3, or with a key  *)
(* or field that is not a BulkString, fails conversion with                *)
(* InvalidCommandArguments and no command is executed.                      *)
C22_WrongArityOrArgType ==
    \A t \in CommandTypes \ {"HMGet"} :
        (Converted /\ RequestFor(t)
            /\ (Len(request) # 1 + ArityOf(t)
                  \/ \E i \in KeyFieldPositions(t) : ~IsBulk(request, i)))
          => /\ command = CmdErr("InvalidCommandArguments")
             /\ response.r = "Err"
             /\ response.frame = NoFrame

(* hset key 7 value, through the dispatcher: the arity is right and the    *)
(* field is an Integer                                                      *)
C22_Witness ==
    /\ Converted /\ via = "dispatch" /\ RequestFor("HSet")
    /\ Len(request) = 1 + ArityOf("HSet")
    /\ IsBulk(request, 2) /\ ~IsBulk(request, 3)
    /\ command = CmdErr("InvalidCommandArguments")

(* C23: converting an hmget array that carries only the key fails with     *)
(* InvalidCommandArguments; one that carries the key and n >= 1 BulkString *)
(* fields yields the command with exactly those n fields in order.         *)
C23_HMGetNeedsAField ==
    (Converted /\ RequestFor("HMGet")
        /\ \A i \in 2..Len(request) : IsBulk(request, i) /\ Utf8Valid(request[i].v))
      => /\ Len(request) = 2 => command = CmdErr("InvalidCommandArguments")
         /\ Len(request) >= 3 =>
               /\ command.r = "Ok"
               /\ command.cmd.key = request[2].v
               /\ command.cmd.fields = [i \in 1..(Len(request) - 2) |-> request[i + 2].v]

(* the array of a command of type t with every argument a BulkString *)
WellFormedFor(t) ==
    /\ RequestFor(t)
    /\ IF t = "HMGet" THEN Len(request) >= 3 ELSE Len(request) = 1 + ArityOf(t)
    /\ \A i \in 2..Len(request) : IsBulk(request, i)

(* C24: for GET, SET, HGET, HSET, HGETALL and HMGET, a key or field that   *)
(* is not valid UTF-8 makes the conversion return a command error; nothing *)
(* is executed, the store is as it was and the handler does not abort.     *)
C24_NonUtf8IsCommandError ==
    [][(command'.r # "None"
          /\ \E t \in CommandTypes \ {"Echo"} :
                /\ WellFormedFor(t)
                /\ \E i \in KeyFieldPositions(t) : ~Utf8Valid(request[i].v))
         => /\ command'.r = "Err"
            /\ response'.r = "Err"
            /\ map' = map
            /\ hmap' = hmap]_vars

----------------------------------------------------------------------------
(* Decoding of received bytes                                               *)

NULL_BULK_STRING == <<36, 45, 49, 13, 10>>

NULL_ARRAY == <<42, 45, 49, 13, 10>>

(* C25: when the buffer begins with $-1 CRLF (respectively *-1 CRLF),      *)
(* decode returns the null BulkString (respectively the null Array) and    *)
(* consumes exactly those 5 bytes, also when further bytes follow, as when *)
(* the null is a child of an Array that is not the last.                   *)
C25_NullFormsAnywhere ==
    step = "fed1" =>
        /\ (entry \in {"frame", "NullBulkString"} /\ StartsWith(input, NULL_BULK_STRING))
              => first = DecOk(NullBulkString, DropN(input, 5))
        /\ (entry \in {"frame", "NullArray"} /\ StartsWith(input, NULL_ARRAY))
              => first = DecOk(NullArray, DropN(input, 5))
        /\ (entry \in {"frame", "Array"}
                /\ input = Wire(Array(<<NullBulkString, Integer(-1)>>)))
              => first = DecOk(Array(<<NullBulkString, Integer(-1)>>), <<>>)

(* the first decode call was for a blob: the input starts with $ or ! and  *)
(* a header that is a length L >= 0                                         *)
BlobCall ==
    /\ step = "fed1"
    /\ input # <<>>
    /\ \/ entry \in {"frame", "BulkString"} /\ input[1] = 36
       \/ entry \in {"frame", "BulkError"} /\ input[1] = 33
    /\ FindCrlf(input) >= 0
    /\ ParseUsize(SubSeq(input, 2, FindCrlf(input))).ok

BlobLength == ParseUsize(SubSeq(input, 2, FindCrlf(input))).val

(* the number of bytes of the blob's header, CRLF included *)
BlobHeader == FindCrlf(input) + CRLF_LEN

(* C26: decoding a blob ($ or !) with header length L when fewer than      *)
(* L + 2 bytes follow the header returns NotComplete.                       *)
C26_ShortBlobNotComplete ==
    (BlobCall /\ Len(input) - BlobHeader < BlobLength + 2)
        => (first.r = "Err" /\ first.err = "NotComplete")

(* C27: decoding a blob ($ or !) with header length L when at least L + 2  *)
(* bytes follow the header and the two bytes after the L payload bytes are *)
(* not CRLF returns InvalidFrame.                                           *)
C27_BlobWithoutCrlf ==
    (BlobCall /\ Len(input) - BlobHeader >= BlobLength + 2
        /\ SubSeq(input, BlobHeader + BlobLength + 1, BlobHeader + BlobLength + 2) # CRLF)
      => (first.r = "Err" /\ first.err = "InvalidFrame")

(* $1 CRLF ab CRLF, a payload longer than its header says, decoded by      *)
(* RespFrame::decode                                                        *)
C27_Witness ==
    /\ BlobCall /\ entry = "frame"
    /\ input = <<36, 49, 13, 10, 97, 98, 13, 10>>
    /\ BlobLength = 1
    /\ first.r = "Err" /\ first.err = "InvalidFrame"

(* C28: a successful decode removes from the front of the buffer exactly   *)
(* the bytes of the frame it returns: a buffer that holds the encodings of *)
(* two frames back to back decodes to the first frame, leaving the         *)
(* encoding of the second, and then to the second.                          *)
C28_ExactConsumption ==
    entry = "frame" =>
        \A f \in WireFrames, g \in WireFrames :
            input = Wire(f) \o Wire(g) =>
                /\ step = "fed1" => first = DecOk(f, Wire(g))
                /\ step = "fed2" => second = DecOk(g, <<>>)

KnownPrefixes == {FIRST_BYTE(t) : t \in FrameTypes}

(* C29: decoding a buffer whose first byte is none of the known prefixes,  *)
(* or is not the prefix of the typed decoder called, returns               *)
(* InvalidFrameType.                                                        *)
C29_WrongPrefixIsInvalidFrameType ==
    (step = "fed1" /\ Len(input) >= 3
        /\ IF entry = "frame" THEN input[1] \notin KnownPrefixes
           ELSE input[1] # FIRST_BYTE(entry))
      => (first.r = "Err" /\ first.err = "InvalidFrameType")

(* C30: a decode call on a buffer shorter than three bytes returns         *)
(* NotComplete whatever the bytes are, through RespFrame::decode and       *)
(* through RespArray::decode on a non-empty buffer.                         *)
C30_ShortBufferNotComplete ==
    (step = "fed1" /\ Len(input) < 3
        /\ (entry = "frame" \/ (entry = "Array" /\ input # <<>>)))
      => first = DecErr("NotComplete", input)

----------------------------------------------------------------------------
(* Claims about one connection with any peer, over SpecPeer.               *)

(* C31: within a connection the handler does not decode request i+1 before *)
(* the response to request i has been written, and every request that is   *)
(* executed produces exactly one response frame.                            *)
C31_OneResponsePerRequest ==
    /\ Len(out) <= Len(served)
    /\ Len(served) <= Len(out) + 1
    /\ \A i \in 1..Len(served) : Converts(served[i]) => Len(out) >= i

(* C32: when the codec reports a decode failure other than NotComplete for *)
(* the bytes of a connection, the handler writes a SimpleError response    *)
(* before it continues or closes the connection.                            *)
C32_DecodeErrorAnswered ==
    (conn \in {"open", "error", "closed"}
        /\ CodecDecode(seen).r = "Err"
        /\ CodecDecode(seen).err # "NotComplete")
      => /\ Len(out) = Len(served) + 1
         /\ Last(out).t = "Error"

----------------------------------------------------------------------------
(* Claims about the server with failing connections, over SpecServer.      *)

Failed(c) == clients[c].pc = "closed"

(* C33: a failure on one connection terminates only that connection: the   *)
(* step leaves the store and the handlers of the other connections as they *)
(* were, new connections are still served, and every request another       *)
(* handler has started is executed against the same store and answered.    *)
C33_FailureIsLocal ==
    /\ [][\A c \in Conns :
            (~Failed(c) /\ clients'[c].pc = "closed")
                => /\ \A d \in Conns \ {c} : clients'[d] = clients[d]
                   /\ map' = map
                   /\ hmap' = hmap]_vars
    /\ \A d \in Conns :
          (clients[d].pc = "started") ~> (clients[d].pc = "idle")

(* connection 1 failed on its first request; connection 2 was accepted     *)
(* after that and has its get answered from the store                      *)
C33_Witness ==
    /\ Failed(1)
    /\ issued = 1
    /\ clients[2].pc = "executed"
    /\ clients[2].req[1].v = NAME_GET

----------------------------------------------------------------------------
(* Frame conditions of the commands, over Spec.                             *)

(* the step executed a command of one of the types cs *)
Runs(cs) == command'.r = "Ok" /\ command'.cmd.c \in cs

(* C34: nothing is ever removed from the store: a key with an inner hash   *)
(* keeps one, every field set under it stays set, and every key set in kv  *)
(* stays set, whatever command runs.                                        *)
C34_NothingRemoved ==
    [][/\ DOMAIN map \subseteq DOMAIN map'
       /\ \A k \in DOMAIN hmap :
             /\ k \in DOMAIN hmap'
             /\ DOMAIN hmap[k] \subseteq DOMAIN hmap'[k]]_vars

(* both keys set in kv, both with both fields in hkv, after one more hset *)
C34_Witness ==
    /\ Dispatched /\ Ran("HSet")
    /\ DOMAIN map = Keys
    /\ DOMAIN hmap = Keys
    /\ \A k \in Keys : DOMAIN hmap[k] = Fields

(* C35: GET, HGET, HGETALL, HMGET, ECHO and the unknown-command fallback   *)
(* leave the kv table and the hkv table exactly as they were; a read of an *)
(* absent key creates no inner hash.                                        *)
C35_ReadsChangeNothing ==
    [][Runs({"Get", "HGet", "HGetAll", "HMGet", "Echo", "Unknown"})
         => (map' = map /\ hmap' = hmap)]_vars

(* hget of a key without a hash answered Null, and the key still has none, *)
(* while the other key has a hash                                           *)
C35_Witness ==
    /\ Dispatched /\ Ran("HGet")
    /\ response.frame = Null
    /\ command.cmd.key \notin DOMAIN hmap
    /\ DOMAIN hmap # {}

(* C36: SET k v changes only the kv entry of k; HSET k f v changes only    *)
(* field f of the inner hash of k.                                          *)
C36_WritesChangeOneEntry ==
    [][/\ Runs({"Set"}) =>
             /\ hmap' = hmap
             /\ DOMAIN map' = DOMAIN map \cup {command'.cmd.key}
             /\ map'[command'.cmd.key] = command'.cmd.value
             /\ \A k \in DOMAIN map \ {command'.cmd.key} : map'[k] = map[k]
       /\ Runs({"HSet"}) =>
             /\ map' = map
             /\ DOMAIN hmap' = DOMAIN hmap \cup {command'.cmd.key}
             /\ \A k \in DOMAIN hmap \ {command'.cmd.key} : hmap'[k] = hmap[k]
             /\ DOMAIN hmap'[command'.cmd.key] =
                   (IF command'.cmd.key \in DOMAIN hmap
                    THEN DOMAIN hmap[command'.cmd.key] ELSE {})
                   \cup {command'.cmd.field}
             /\ hmap'[command'.cmd.key][command'.cmd.field] = command'.cmd.value
             /\ \A f \in DOMAIN hmap'[command'.cmd.key] \ {command'.cmd.field} :
                   hmap'[command'.cmd.key][f] = hmap[command'.cmd.key][f]]_vars

(* set b answered while a is set to another value and a has a hash *)
C36_Witness ==
    /\ Dispatched /\ Ran("Set")
    /\ command.cmd.key = <<98>>
    /\ <<97>> \in DOMAIN map
    /\ map[<<97>>] # map[<<98>>]
    /\ <<97>> \in DOMAIN hmap

----------------------------------------------------------------------------
(* Failed conversions, over SpecConvert.                                    *)

(* C37: a request whose conversion to a command returns an error never     *)
(* changes the store: after a failed conversion, of a SET or HSET request  *)
(* in particular, kv and hkv are what they were before the request.        *)
C37_FailedConversionKeepsStore ==
    [][command'.r = "Err" => (map' = map /\ hmap' = hmap)]_vars

(* set <0xFF> a on a store that holds a: FromUtf8Error, a still set *)
C37_Witness ==
    /\ Converted /\ via = "dispatch" /\ RequestFor("Set")
    /\ Len(request) = 3
    /\ IsBulk(request, 2)
    /\ ~Utf8Valid(request[2].v)
    /\ command = CmdErr("FromUtf8Error")
    /\ map = MapInsert(EmptyMap, <<97>>, BulkString(<<49>>))

----------------------------------------------------------------------------
(* Value types, over Spec.                                                  *)

IsBulkOrNull(f) == f.t = "BulkString" \/ f = Null

(* C39: every value stored in the hkv table through the command pipeline   *)
(* is a BulkString: the HSET conversion rejects any other value with       *)
(* InvalidCommandArguments, whereas SET stores any frame; so the responses *)
(* of HGET, HMGET and HGETALL hold only BulkString values, and Null for    *)
(* misses.                                                                  *)
C39_HashValuesAreBulkStrings ==
    /\ \A k \in DOMAIN hmap : \A f \in DOMAIN hmap[k] : hmap[k][f].t = "BulkString"
    /\ (Dispatched /\ Asks(NAME_HSET, 2) /\ IsBulk(request, 3) /\ ~IsBulk(request, 4))
          => command = CmdErr("InvalidCommandArguments")
    /\ (Dispatched /\ Asks(NAME_SET, 1))
          => (Ran("Set") /\ map[request[2].v] = request[3])
    /\ Ran("HGet") => IsBulkOrNull(response.frame)
    /\ (Ran("HMGet") \/ Ran("HGetAll"))
          => \/ response.frame = Null
             \/ /\ response.frame.t = "Array"
                /\ \A i \in 1..Len(response.frame.v) : IsBulkOrNull(response.frame.v[i])

(* hset a f 7 rejected while a key of kv holds the Integer 7 and a has a   *)
(* hash                                                                     *)
C39_Witness ==
    /\ Dispatched /\ Asks(NAME_HSET, 2)
    /\ request[4] = Integer(7)
    /\ command = CmdErr("InvalidCommandArguments")
    /\ \E k \in DOMAIN map : map[k] = Integer(7)
    /\ <<97>> \in DOMAIN hmap

----------------------------------------------------------------------------
(* Whole-hash reads beside writes, over SpecSnapshot.                      *)

(* handler c has finished an hmget or hgetall of key a *)
ReadFinished(c) ==
    /\ clients[c].pc = "executed"
    /\ IsRead(clients[c].req)

(* the answers the read of c gives on the contents hm *)
AnswersOn(c, hm) ==
    {Execute(SnapCmdOf(clients[c].req), map, hm, o).frame :
        o \in OrdersFor(SnapCmdOf(clients[c].req), hm)}

(* every finished read answers as on one of the recorded contents *)
NoTornRead ==
    \A c \in DOMAIN clients :
        ReadFinished(c)
           => \E i \in clients[c].floor..Len(hist[<<97>>]) :
                  clients[c].res \in AnswersOn(c, hist[<<97>>][i])

(* C38: an HMGET or HGETALL of key k that runs beside HSETs of k answers   *)
(* with the contents of k's hash at one single instant of its run: its     *)
(* answer is the answer on one of the contents the table had from the      *)
(* moment the read took the guard on, never a mix of two of them; and no   *)
(* insert into k's hash happens while a reader holds the guard.            *)
C38_ReadIsASnapshot ==
    /\ NoTornRead
    /\ \A c \in DOMAIN clients :
          clients[c].pc = "reading"
             => /\ clients[c].floor = Len(hist[<<97>>])
                /\ \A d \in DOMAIN clients : clients[d].pc # "entry"

(* an hmget answered with the values of the first hset, which ended before *)
(* it, while the other handler's hset of the same key has arrived           *)
C38_Witness ==
    /\ ReadFinished(1)
    /\ SnapCmdOf(clients[1].req).c = "HMGet"
    /\ clients[1].floor = 2
    /\ Len(hist[<<97>>]) = 2
    /\ clients[1].res \in AnswersOn(1, hist[<<97>>][2])
    /\ clients[1].res \notin AnswersOn(1, hist[<<97>>][1])
    /\ clients[2].pc = "started"
    /\ CmdOf(clients[2].req).c = "HSet"

====
